---------------------------- MODULE Spec2Model ----------------------------
(***************************************************************************)
(* A model of go-sarah's runtime: the worker pool (worker/worker.go), the  *)
(* runner's per-bot responder (BotRunner.respondMessage), the bot          *)
(* supervisor, and the start-up path of the Slack and Gitter adapters.     *)
(*                                                                         *)
(* Goroutines are processes; every action is one atomic step of one        *)
(* goroutine between two of its blocking points (a channel operation, a    *)
(* select, a job's return).  A Go select with several ready cases picks    *)
(* any of them, so every ready case is an enabled action.                  *)
(***************************************************************************)
EXTENDS Integers, Sequences, FiniteSets, TLC

(***************************************************************************)
(* Bounds of the model.                                                    *)
(***************************************************************************)
\* Capacity of Worker.jobReceiver as modelled.  The source allocates
\* make(chan func(), 100); the model keeps the channel bounded and FIFO
\* but scales the capacity down so that the full-queue case is reached.
QueueCap == 1
\* Number of inputs the adapter hands to the runner in one behaviour.
MaxInputs == 2
\* Number of successful Worker.Run calls in one behaviour.
MaxRuns == 2
\* Largest workerNum passed to Worker.Run.
MaxWorkerNum == 2

\* Attempts a retry policy allows (retry.Policy.Trial).
RetryTrial == 2
\* Connections one adapter goroutine establishes in one behaviour.
MaxConns == 2
\* Capacity of the Slack adapter's messageQueue (Config.SendingQueueSize).
SendingQueueSize == 1
\* Errors passed to one bot's error-notification function in one behaviour.
MaxNotify == 2

\* Calls of AddAdapter in one behaviour.
MaxAdapters == 2
\* Command builders stashed in one behaviour.
MaxBuilders == 3
\* Jobs of respondMessage executed in one behaviour.
MaxJobs == 2

\* Calls of a bot's Respond in one behaviour.
MaxDispatch == 3
\* Continuations stored in one behaviour.
MaxConts == 2

\* The contexts that can be passed to Worker.Run.
Ctx == {"ctx1", "ctx2"}
\* The bots of the runner (their BotTypes).
Bots == {"slack", "gitter"}
\* The rooms the Gitter account may have joined.
Rooms == {"room1", "room2"}
Conns == 1..MaxConns

Runs == 1..MaxRuns
Inputs == 1..MaxInputs
\* A child worker is named by the Run call that started it and its workerId.
Workers == Runs \X (1..MaxWorkerNum)

VARIABLES
    \* ---- worker.Worker ----
    jobReceiver,   \* the buffered channel: a FIFO of jobs (a job is named by its input)
    isRunning,     \* Worker.isRunning
    cancelled,     \* cancelled[c]: context c is Done
    runs,          \* the successful Run calls so far: <<[ctx, num]>>
    runErr,        \* what the last Run call returned: "none", "nil" or "error"
    watcher,       \* watcher[r]: the goroutine of Run r that resets isRunning
    wstate,        \* wstate[w]: "none", "select", "running" or "stopped"
    wjob,          \* wjob[w]: the job worker w is executing (0: none)
    \* ---- BotRunner.respondMessage ----
    stopAll,       \* runner.stopAll is closed
    rpc,           \* the responder: "select", "blocked" (in a channel send) or "returned"
    rjob,          \* the job the responder is sending while blocked (0: none)
    nInputs,       \* inputs received from the adapter so far
    kind,          \* kind[i]: what the job of input i does: "ok" or "panic" ("none": not yet received)
    created,       \* created[i]: jobs created for input i
    enqueued,      \* enqueued[i]: times a job of input i was stored in jobReceiver
    started,       \* started[i]: times a worker called the job of input i
    handled,       \* handled[i]: times ExecuteFirstMatched was called with input i
    \* ---- the bot supervisor (runner) ----
    rootDone,      \* the runner's context is cancelled
    botErr,        \* botErr[b]: botCtx.Err() of bot b: "nil" or "Canceled"
    escalated,     \* escalated[b]: the error handed to b's supervisor and not yet handled
    passed,        \* passed[b]: the kinds of error passed to b's notification function so far
    nNotify,       \* nNotify[b]: calls of b's notification function so far
    alerted,       \* alerted[b]: times the alerters were called for b
    \* ---- an adapter's Run ----
    botType,       \* the adapter under study: "slack", "gitter" ("none": no adapter is run)
    ctxDone,       \* the context given to Adapter.Run is cancelled
    notifyErrs,    \* the errors Adapter.Run passed to notifyErr, in order
    \* ---- slack.Adapter ----
    sPc,           \* Run: "idle", "startRTM", "connectRTM", "supervise" or "returned"
    sTrial,        \* failed attempts of the retry in progress
    sConn,         \* connections established so far; the last one is the current one
    sClosed,       \* sClosed[k]: calls of Close on connection k
    sConnDone,     \* sConnDone[k]: connCancel was called for connection k
    sRecv,         \* receivePayload of connection k: "none", "select", "receive" or "returned"
    tryPing,       \* tryPing[k]: who put the signal buffered in connection k's tryPing channel
                   \* (capacity 1): "ticker" or "receive"; "none" when the channel is empty
    messageQueue,  \* messages buffered in adapter.messageQueue
    sendPc,        \* a caller of SendMessage: "idle" or "blocked" in the channel send
    \* ---- gitter.Adapter ----
    gPc,           \* Run: "idle", "rooms" or "returned"
    gTrial,        \* failed attempts of fetching the rooms
    gFetched,      \* the rooms were fetched
    room,          \* runEachRoom of room r: "none", "select", "connecting", "receiving" or "returned"
    roomTrial,     \* roomTrial[r]: failed attempts of the connect in progress
    roomConn,      \* roomConn[r]: connections established to room r
    roomClosed,    \* roomClosed[r]: connections to room r closed
    \* ---- what the adapter's loops did last ----
    lastSupervise, \* the last Send and Ping superviseConnection made in one turn of its loop
    lastReceive,   \* what the last Receive returned and the calls of the handler it led to
    \* ---- BotRunner: registration, Run and the jobs' replies ----
    botProperties, \* the BotTypes of the registered adapters, in registration order
    addErr,        \* outcome of the last AddAdapter: "none", "nil" or "panic"
    stashedCommandBuilder, \* per BotType, the stashed builders in stash order
    nBuilders,     \* builders created so far (a builder's identifier is its number)
    commands,      \* commands[i]: the commands appended to the i-th bot, in order
    buildErrs,     \* identifiers of the builders whose build failed, as logged
    brPc,          \* BotRunner.Run: "idle", "loop", "adapterRun" or "done"
    brIdx,         \* the botProperty the loop of Run is at
    adapterRun,    \* adapterRun[i]: calls of the i-th adapter's Run
    responder,     \* responder[i]: respondMessage goroutines started for the i-th bot
    nJobs,         \* jobs of respondMessage executed so far
    lastJob,       \* the last job executed: bot, command found, response and error
    sent,          \* sent[i]: calls of the i-th adapter's SendResponse
    \* ---- a bot's Respond and its user context storage ----
    storage,       \* storage[s]: the continuation stored for sender s, 0 when none
    nConts,        \* continuations stored so far (a continuation is named by its number)
    dpc,           \* dispatch d (a Respond call): "idle", "lookup", "invoke" or "done"
    dsender,       \* dsender[d]: the sender of the input of dispatch d
    dcont,         \* dcont[d]: the continuation dispatch d found, 0 when none
    ranBy          \* ranBy[c]: the dispatches that invoked continuation c

workerVars == <<jobReceiver, isRunning, cancelled, runs, runErr, watcher, wstate, wjob>>
runnerVars == <<stopAll, rpc, rjob, nInputs, kind, created, enqueued, started, handled>>
supervisorVars == <<rootDone, botErr, escalated, passed, nNotify, alerted>>
slackVars == <<sPc, sTrial, sConn, sClosed, sConnDone, sRecv, tryPing, messageQueue, sendPc>>
gitterVars == <<gPc, gTrial, gFetched, room, roomTrial, roomConn, roomClosed>>
lastVars == <<lastSupervise, lastReceive>>
adapterVars == <<botType, ctxDone, notifyErrs, slackVars, gitterVars, lastVars>>
poolVars == <<workerVars, runnerVars>>
registryVars == <<botProperties, addErr, stashedCommandBuilder, nBuilders, commands, buildErrs,
                  brPc, brIdx, adapterRun, responder, nJobs, lastJob, sent>>
contextVars == <<storage, nConts, dpc, dsender, dcont, ranBy>>
coreVars == <<poolVars, supervisorVars, adapterVars, registryVars, contextVars>>

VARIABLES
    builder,       \* ScheduledTaskBuilder: identifier and taskFunc set?, schedule, defaultDestination, config set?
    taskConfig,    \* the TaskConfig value builder.config points to: the fields its type has, and their values
    configFile,    \* <configDir>/<identifier>.yaml: missing, unreadable, or readable with its contents
    task,          \* the ScheduledTask entry held from the last successful Build, NoTask before
    builtConfig,   \* the configuration values the held entry was built with
    buildErr,      \* what the last Build returned: "none" before any, "nil", or the error
    buildDir,      \* the configDir argument of the last Build
    nBuild         \* number of Build calls so far

VARIABLES
    firing,        \* the task execution the scheduler fired: what Execute returns, the task's default destination
    epc,           \* executeScheduledTask: "idle", "executing", "results", "done"
    eidx,          \* index of the next result to handle
    sendMessages,  \* the calls of bot.SendMessage made for this firing, in order
    cronRunning,   \* the scheduler is running
    nFired         \* number of firings so far

VARIABLES
    retryPc,       \* retry.Retry: "idle", "running", "returned"
    trial,         \* the trial argument of the call
    attempts,      \* what the target function returned, one entry per call, in call order
    retryErr,      \* what Retry returned: nil, or the aggregated per-attempt errors
    nRetry         \* number of calls of Retry so far

VARIABLES
    subscription,  \* receiveEvent: subscription[dir], the watches on directory dir, in the order they were added
    fsWatched,     \* the directories added to the underlying filesystem watcher
    dwRunning,     \* receiveEvent is in its loop
    dwCtxDone,     \* the context runConfigWatcher was given, the root of the bots' contexts, is cancelled
    calls,         \* the calls of dirWatcher.watch so far: botType, dir and how far each has got
    botCtxDone,    \* the bot types whose context is cancelled
    lastEvent,     \* what receiveEvent took last from events or errors
    invoked,       \* the callbacks that event invoked, in order, with the file name handed to each
    \* ---- slack: handlePayload ----
    payloadCall    \* the last call of handlePayload: its config, its payload and the inputs it enqueued

taskVars == <<builder, taskConfig, configFile, task, builtConfig, buildErr, buildDir, nBuild>>
schedVars == <<firing, epc, eidx, sendMessages, cronRunning, nFired>>
retryVars == <<retryPc, trial, attempts, retryErr, nRetry>>
dirVars == <<subscription, fsWatched, dwRunning, dwCtxDone, calls, botCtxDone, lastEvent, invoked>>
payloadVars == <<payloadCall>>
extVars == <<taskVars, schedVars, retryVars, dirVars, payloadVars>>
exceptTaskVars == <<coreVars, schedVars, retryVars, dirVars, payloadVars>>
exceptSchedVars == <<coreVars, taskVars, retryVars, dirVars, payloadVars>>
exceptRetryVars == <<coreVars, taskVars, schedVars, dirVars, payloadVars>>
exceptDirVars == <<coreVars, taskVars, schedVars, retryVars, payloadVars>>
exceptPayloadVars == <<coreVars, taskVars, schedVars, retryVars, dirVars>>
vars == <<workerVars, runnerVars, supervisorVars, adapterVars, registryVars, contextVars, extVars>>

(***************************************************************************)
(* worker.New and NewBotRunner: the state after construction.              *)
(***************************************************************************)
New ==
    /\ jobReceiver = <<>>
    /\ isRunning = FALSE
    /\ cancelled = [c \in Ctx |-> FALSE]
    /\ runs = <<>>
    /\ runErr = "none"
    /\ watcher = [r \in Runs |-> "none"]
    /\ wstate = [w \in Workers |-> "none"]
    /\ wjob = [w \in Workers |-> 0]

NewBotRunner ==
    /\ stopAll = FALSE
    /\ rpc = "select"
    /\ rjob = 0
    /\ nInputs = 0
    /\ kind = [i \in Inputs |-> "none"]
    /\ created = [i \in Inputs |-> 0]
    /\ enqueued = [i \in Inputs |-> 0]
    /\ started = [i \in Inputs |-> 0]
    /\ handled = [i \in Inputs |-> 0]

\* The supervisor before any error is notified.
SupervisorInit ==
    /\ rootDone = FALSE
    /\ botErr = [b \in Bots |-> "nil"]
    /\ escalated = [b \in Bots |-> "none"]
    /\ passed = [b \in Bots |-> {}]
    /\ nNotify = [b \in Bots |-> 0]
    /\ alerted = [b \in Bots |-> 0]

\* slack.NewAdapter / gitter.NewAdapter: an adapter whose Run was not called.
NewAdapter ==
    /\ ctxDone = FALSE
    /\ notifyErrs = <<>>
    /\ sPc = "idle"
    /\ sTrial = 0
    /\ sConn = 0
    /\ sClosed = [k \in Conns |-> 0]
    /\ sConnDone = [k \in Conns |-> FALSE]
    /\ sRecv = [k \in Conns |-> "none"]
    /\ tryPing = [k \in Conns |-> "none"]
    /\ messageQueue = 0
    /\ sendPc = "idle"
    /\ gPc = "idle"
    /\ gTrial = 0
    /\ gFetched = FALSE
    /\ room = [r \in Rooms |-> "none"]
    /\ roomTrial = [r \in Rooms |-> 0]
    /\ roomConn = [r \in Rooms |-> 0]
    /\ roomClosed = [r \in Rooms |-> 0]
    /\ lastSupervise = [send |-> "none", ping |-> "none", by |-> "none"]
    /\ lastReceive = [payload |-> "nil", err |-> "nil", handled |-> 0]

\* NewBotRunner and the package's empty stash: nothing registered, Run not
\* called.
RegistryInit ==
    /\ botProperties = <<>>
    /\ addErr = "none"
    /\ stashedCommandBuilder = [t \in Bots |-> <<>>]
    /\ nBuilders = 0
    /\ commands = [i \in 1..MaxAdapters |-> <<>>]
    /\ buildErrs = <<>>
    /\ brPc = "idle"
    /\ brIdx = 1
    /\ adapterRun = [i \in 1..MaxAdapters |-> 0]
    /\ responder = [i \in 1..MaxAdapters |-> 0]
    /\ nJobs = 0
    /\ lastJob = [bot |-> 0, msg |-> "none", cmd |-> 0, res |-> "nil", err |-> "nil"]
    /\ sent = [i \in 1..MaxAdapters |-> 0]

\* The senders of inputs, the Respond calls and the continuations.
Senders == {"alice", "bob"}
Dispatches == 1..MaxDispatch
Conts == 1..MaxConts

\* An empty user context storage and no Respond call yet.
ContextInit ==
    /\ storage = [s \in Senders |-> 0]
    /\ nConts = 0
    /\ dpc = [d \in Dispatches |-> "idle"]
    /\ dsender = [d \in Dispatches |-> "none"]
    /\ dcont = [d \in Dispatches |-> 0]
    /\ ranBy = [c \in Conts |-> {}]

(***************************************************************************)
(* task.go: NewScheduledTaskBuilder. The builder starts with no field set, *)
(* no config file has been looked at and no task has been built.           *)
(***************************************************************************)
NoConfig == [hasSchedule |-> FALSE, hasDest |-> FALSE, schedule |-> "", dest |-> "nil", value |-> "v1"]

NoFile == [state |-> "missing", schedule |-> "", dest |-> "nil", value |-> "v1"]
NoTask == [built |-> FALSE, schedule |-> "", defaultDestination |-> "nil", config |-> FALSE]

NewScheduledTaskBuilder ==
    /\ builder = [identifier |-> FALSE, taskFunc |-> FALSE, schedule |-> "",
                  defaultDestination |-> "nil", config |-> FALSE]
    /\ taskConfig = NoConfig
    /\ configFile = NoFile
    /\ task = NoTask
    /\ builtConfig = NoConfig
    /\ buildErr = "none"
    /\ buildDir = ""
    /\ nBuild = 0

\* The scheduler is running and has fired nothing yet.
NoFiring == [results |-> <<>>, err |-> FALSE, defaultDestination |-> "nil"]

SchedulerInit ==
    /\ firing = NoFiring
    /\ epc = "idle"
    /\ eidx = 1
    /\ sendMessages = <<>>
    /\ cronRunning = TRUE
    /\ nFired = 0

\* No call of retry.Retry has been made.
RetryInit ==
    /\ retryPc = "idle"
    /\ trial = 0
    /\ attempts = <<>>
    /\ retryErr = [nil |-> TRUE, Errors |-> <<>>]
    /\ nRetry = 0

\* runConfigWatcher: the dirWatcher starts with no subscription.
WatchedDirs == {"dir1", "dir2"}

NoEvent == [op |-> "none", dir |-> "none", name |-> "none"]

runConfigWatcher ==
    /\ subscription = [d \in WatchedDirs |-> <<>>]
    /\ fsWatched = {}
    /\ dwRunning = TRUE
    /\ dwCtxDone = FALSE
    /\ calls = <<>>
    /\ botCtxDone = {}
    /\ lastEvent = NoEvent
    /\ invoked = <<>>

\* No payload was handled yet; the adapter's config has no help and no abort
\* command.
PayloadInit ==
    payloadCall = [config |-> [HelpCommand |-> <<>>, AbortCommand |-> <<>>],
                   payload |-> [type |-> "none", text |-> <<>>],
                   enqueued |-> <<>>]

ExtInit == NewScheduledTaskBuilder /\ SchedulerInit /\ RetryInit /\ runConfigWatcher /\ PayloadInit

Init ==
    /\ New /\ NewBotRunner /\ SupervisorInit /\ NewAdapter /\ RegistryInit /\ ContextInit
    /\ ExtInit
    /\ botType = "none"

(***************************************************************************)
(* Helpers.                                                                *)
(***************************************************************************)
\* The context worker w was started with.
CtxOf(w) == runs[w[1]].ctx
\* Worker.IsRunning
IsRunning == isRunning
\* The workers whose goroutine exists and has not returned.
LiveWorkers == {w \in Workers : wstate[w] \in {"select", "running"}}
\* The jobs being executed at this moment.
InFlight == {w \in Workers : wstate[w] = "running"}

(***************************************************************************)
(* Worker.Run(ctx, workerNum)                                              *)
(***************************************************************************)
\* isRunning is true: Run returns an error and changes nothing else.
WorkerRun_AlreadyRunning ==
    /\ isRunning = TRUE
    /\ runErr' = "error"
    /\ UNCHANGED <<jobReceiver, isRunning, cancelled, runs, watcher, wstate, wjob>>
    /\ UNCHANGED runnerVars
    /\ UNCHANGED <<supervisorVars, adapterVars, registryVars, contextVars, extVars>>

\* A faulty Run, which does not look at isRunning.
WorkerRun_Start_NoCheck(ctx, workerNum) ==
    /\ Len(runs) < MaxRuns
    /\ LET r == Len(runs) + 1 IN
        /\ runs' = Append(runs, [ctx |-> ctx, num |-> workerNum])
        /\ wstate' = [w \in Workers |->
                        IF w[1] = r /\ w[2] <= workerNum THEN "select" ELSE wstate[w]]
        /\ watcher' = [watcher EXCEPT ![r] = "waiting"]
    /\ isRunning' = TRUE
    /\ runErr' = "nil"
    /\ UNCHANGED <<jobReceiver, cancelled, wjob>>
    /\ UNCHANGED runnerVars
    /\ UNCHANGED <<supervisorVars, adapterVars, registryVars, contextVars, extVars>>

\* Run starts workerNum children, sets isRunning and starts the goroutine
\* that waits for ctx.Done.
WorkerRun_Start(ctx, workerNum) ==
    /\ isRunning = FALSE
    /\ Len(runs) < MaxRuns
    /\ LET r == Len(runs) + 1 IN
        /\ runs' = Append(runs, [ctx |-> ctx, num |-> workerNum])
        /\ wstate' = [w \in Workers |->
                        IF w[1] = r /\ w[2] <= workerNum THEN "select" ELSE wstate[w]]
        /\ watcher' = [watcher EXCEPT ![r] = "waiting"]
    /\ isRunning' = TRUE
    /\ runErr' = "nil"
    /\ UNCHANGED <<jobReceiver, cancelled, wjob>>
    /\ UNCHANGED runnerVars
    /\ UNCHANGED <<supervisorVars, adapterVars, registryVars, contextVars, extVars>>

\* A faulty variant of the watcher goroutine, which resets isRunning without
\* waiting for ctx.Done().
WorkerRun_WatcherNoWait(r) ==
    /\ watcher[r] = "waiting"
    /\ watcher' = [watcher EXCEPT ![r] = "done"]
    /\ isRunning' = FALSE
    /\ UNCHANGED <<jobReceiver, cancelled, runs, runErr, wstate, wjob>>
    /\ UNCHANGED runnerVars
    /\ UNCHANGED <<supervisorVars, adapterVars, registryVars, contextVars, extVars>>

\* go func() { <-ctx.Done(); worker.isRunning = false }()
WorkerRun_Watcher(r) ==
    /\ watcher[r] = "waiting"
    /\ cancelled[runs[r].ctx]
    /\ watcher' = [watcher EXCEPT ![r] = "done"]
    /\ isRunning' = FALSE
    /\ UNCHANGED <<jobReceiver, cancelled, runs, runErr, wstate, wjob>>
    /\ UNCHANGED runnerVars
    /\ UNCHANGED <<supervisorVars, adapterVars, registryVars, contextVars, extVars>>

\* The owner of a context cancels it.
Cancel(c) ==
    /\ ~cancelled[c]
    /\ cancelled' = [cancelled EXCEPT ![c] = TRUE]
    /\ UNCHANGED <<jobReceiver, isRunning, runs, runErr, watcher, wstate, wjob>>
    /\ UNCHANGED runnerVars
    /\ UNCHANGED <<supervisorVars, adapterVars, registryVars, contextVars, extVars>>

(***************************************************************************)
(* Worker.runChild(ctx, workerId): for { select { ... } }                  *)
(***************************************************************************)
\* A faulty variant of the Done case, in which the worker returns from its
\* select although ctx is not cancelled.
runChild_DoneAnyTime(w) ==
    /\ wstate[w] = "select"
    /\ wstate' = [wstate EXCEPT ![w] = "stopped"]
    /\ UNCHANGED <<jobReceiver, isRunning, cancelled, runs, runErr, watcher, wjob>>
    /\ UNCHANGED runnerVars
    /\ UNCHANGED <<supervisorVars, adapterVars, registryVars, contextVars, extVars>>

\* case <-ctx.Done(): return
runChild_Done(w) ==
    /\ wstate[w] = "select"
    /\ cancelled[CtxOf(w)]
    /\ wstate' = [wstate EXCEPT ![w] = "stopped"]
    /\ UNCHANGED <<jobReceiver, isRunning, cancelled, runs, runErr, watcher, wjob>>
    /\ UNCHANGED runnerVars
    /\ UNCHANGED <<supervisorVars, adapterVars, registryVars, contextVars, extVars>>

\* A faulty variant of the receive case, in which the job read stays in
\* the channel.
runChild_ReceiveKeepsJob(w) ==
    /\ wstate[w] = "select"
    /\ jobReceiver # <<>>
    /\ LET job == Head(jobReceiver) IN
        /\ started[job] < 2
        /\ wstate' = [wstate EXCEPT ![w] = "running"]
        /\ wjob' = [wjob EXCEPT ![w] = job]
        /\ started' = [started EXCEPT ![job] = @ + 1]
        /\ handled' = [handled EXCEPT ![job] = @ + 1]
    /\ UNCHANGED <<jobReceiver, isRunning, cancelled, runs, runErr, watcher>>
    /\ UNCHANGED <<stopAll, rpc, rjob, nInputs, kind, created, enqueued>>
    /\ UNCHANGED <<supervisorVars, adapterVars, registryVars, contextVars, extVars>>

\* case job := <-worker.jobReceiver: the worker takes the head of the
\* channel and calls job(), which calls ExecuteFirstMatched(botInput).
\* The case is ready whenever the channel holds a job, whether or not
\* ctx.Done() is ready too.
runChild_Receive(w) ==
    /\ wstate[w] = "select"
    /\ jobReceiver # <<>>
    /\ LET job == Head(jobReceiver) IN
        /\ jobReceiver' = Tail(jobReceiver)
        /\ wstate' = [wstate EXCEPT ![w] = "running"]
        /\ wjob' = [wjob EXCEPT ![w] = job]
        /\ started' = [started EXCEPT ![job] = @ + 1]
        /\ handled' = [handled EXCEPT ![job] = @ + 1]
    /\ UNCHANGED <<isRunning, cancelled, runs, runErr, watcher>>
    /\ UNCHANGED <<stopAll, rpc, rjob, nInputs, kind, created, enqueued>>
    /\ UNCHANGED <<supervisorVars, adapterVars, registryVars, contextVars, extVars>>

\* job() returns normally: back to the select.
runChild_JobReturn(w) ==
    /\ wstate[w] = "running"
    /\ kind[wjob[w]] = "ok"
    /\ wstate' = [wstate EXCEPT ![w] = "select"]
    /\ wjob' = [wjob EXCEPT ![w] = 0]
    /\ UNCHANGED <<jobReceiver, isRunning, cancelled, runs, runErr, watcher>>
    /\ UNCHANGED runnerVars
    /\ UNCHANGED <<supervisorVars, adapterVars, registryVars, contextVars, extVars>>

\* A faulty variant without the deferred recover: the panic ends the
\* worker's goroutine.
runChild_NoRecover(w) ==
    /\ wstate[w] = "running"
    /\ kind[wjob[w]] = "panic"
    /\ wstate' = [wstate EXCEPT ![w] = "stopped"]
    /\ wjob' = [wjob EXCEPT ![w] = 0]
    /\ UNCHANGED <<jobReceiver, isRunning, cancelled, runs, runErr, watcher>>
    /\ UNCHANGED runnerVars
    /\ UNCHANGED <<supervisorVars, adapterVars, registryVars, contextVars, extVars>>

\* job() panics: the deferred function recovers, logs the stack, and the
\* wrapping func returns: back to the select.
runChild_Recover(w) ==
    /\ wstate[w] = "running"
    /\ kind[wjob[w]] = "panic"
    /\ wstate' = [wstate EXCEPT ![w] = "select"]
    /\ wjob' = [wjob EXCEPT ![w] = 0]
    /\ UNCHANGED <<jobReceiver, isRunning, cancelled, runs, runErr, watcher>>
    /\ UNCHANGED runnerVars
    /\ UNCHANGED <<supervisorVars, adapterVars, registryVars, contextVars, extVars>>

(***************************************************************************)
(* Worker.EnqueueJob(job): worker.jobReceiver <- job, a channel send.      *)
(* The send completes at once when the buffer has room and otherwise       *)
(* suspends the calling goroutine until it has.                            *)
(***************************************************************************)
\* The send as the caller `job` reaches it: TRUE when it completes at once.
EnqueueJob_Room == Len(jobReceiver) < QueueCap

\* The suspended send completes.
EnqueueJob_Resume ==
    /\ rpc = "blocked"
    /\ EnqueueJob_Room
    /\ jobReceiver' = Append(jobReceiver, rjob)
    /\ enqueued' = [enqueued EXCEPT ![rjob] = @ + 1]
    /\ rpc' = "select"
    /\ rjob' = 0
    /\ UNCHANGED <<isRunning, cancelled, runs, runErr, watcher, wstate, wjob>>
    /\ UNCHANGED <<stopAll, nInputs, kind, created, started, handled>>
    /\ UNCHANGED <<supervisorVars, adapterVars, registryVars, contextVars, extVars>>

(***************************************************************************)
(* BotRunner.respondMessage: for { select { stopAll / receiver } }         *)
(***************************************************************************)
\* case botInput := <-receiver: the adapter hands over its next input; the
\* responder wraps it in one job and calls runner.EnqueueJob, which is
\* Worker.EnqueueJob.  k is what the command bound to the input will do.
respondMessage_Input(k) ==
    /\ rpc = "select"
    /\ nInputs < MaxInputs
    /\ LET i == nInputs + 1 IN
        /\ nInputs' = i
        /\ kind' = [kind EXCEPT ![i] = k]
        /\ created' = [created EXCEPT ![i] = @ + 1]
        /\ IF EnqueueJob_Room
             THEN /\ jobReceiver' = Append(jobReceiver, i)
                  /\ enqueued' = [enqueued EXCEPT ![i] = @ + 1]
                  /\ UNCHANGED <<rpc, rjob>>
             ELSE /\ rpc' = "blocked"
                  /\ rjob' = i
                  /\ UNCHANGED <<jobReceiver, enqueued>>
    /\ UNCHANGED <<isRunning, cancelled, runs, runErr, watcher, wstate, wjob>>
    /\ UNCHANGED <<stopAll, started, handled>>
    /\ UNCHANGED <<supervisorVars, adapterVars, registryVars, contextVars, extVars>>

\* case <-runner.stopAll: return
respondMessage_Stop ==
    /\ rpc = "select"
    /\ stopAll
    /\ rpc' = "returned"
    /\ UNCHANGED workerVars
    /\ UNCHANGED <<stopAll, rjob, nInputs, kind, created, enqueued, started, handled>>
    /\ UNCHANGED <<supervisorVars, adapterVars, registryVars, contextVars, extVars>>

\* BotRunner.Stop: close(runner.stopAll)
Stop ==
    /\ ~stopAll
    /\ stopAll' = TRUE
    /\ UNCHANGED workerVars
    /\ UNCHANGED <<rpc, rjob, nInputs, kind, created, enqueued, started, handled>>
    /\ UNCHANGED <<supervisorVars, adapterVars, registryVars, contextVars, extVars>>

Next ==
    \/ WorkerRun_AlreadyRunning
    \/ \E c \in Ctx, n \in 0..MaxWorkerNum : WorkerRun_Start(c, n)
    \/ \E r \in Runs : WorkerRun_Watcher(r)
    \/ \E c \in Ctx : Cancel(c)
    \/ \E w \in Workers : runChild_Done(w)
    \/ \E w \in Workers : runChild_Receive(w)
    \/ \E w \in Workers : runChild_JobReturn(w)
    \/ \E w \in Workers : runChild_Recover(w)
    \/ EnqueueJob_Resume
    \/ \E k \in {"ok", "panic"} : respondMessage_Input(k)
    \/ respondMessage_Stop
    \/ Stop

Spec == Init /\ [][Next]_vars

(***************************************************************************)
(* Scheduling.  The Go scheduler runs every runnable goroutine, so a       *)
(* goroutine whose next step stays possible takes it: the watcher of a     *)
(* cancelled context, a child worker in its select, a suspended channel    *)
(* send once the buffer has room.  Jobs are assumed to return (normally or *)
(* by panicking).  Nothing obliges the environment to call Run, to cancel  *)
(* a context, to close stopAll or to deliver an input.                     *)
(***************************************************************************)
Fairness ==
    /\ \A r \in Runs : WF_poolVars(WorkerRun_Watcher(r))
    /\ \A w \in Workers : WF_poolVars(runChild_Done(w))
    /\ \A w \in Workers : WF_poolVars(runChild_Receive(w))
    /\ \A w \in Workers : WF_poolVars(runChild_JobReturn(w))
    /\ \A w \in Workers : WF_poolVars(runChild_Recover(w))
    /\ WF_poolVars(EnqueueJob_Resume)

FairSpec == Spec /\ Fairness

(***************************************************************************)
(* Claims about the worker pool and the responder.                         *)
(***************************************************************************)
\* The context of the most recent successful Run.
LastCtx == runs[Len(runs)].ctx
\* The workerNum of the most recent successful Run.
LastWorkerNum == runs[Len(runs)].num

\* C1: Worker.EnqueueJob never suspends its caller: with the queue at
\* capacity the call returns at once (signalling overflow) instead of
\* waiting in the channel send.
C1_EnqueueNeverSuspends == rpc # "blocked"

\* C2: in every reachable state the number of jobs being executed
\* concurrently is at most the workerNum of the most recent successful Run.
\* Stated for the runs the claim names: every Run was given a context of
\* its own and a workerNum of at least one.
C2_InFlightWithinWorkerNum ==
    (/\ runs # <<>>
     /\ \A r1, r2 \in 1..Len(runs) : r1 # r2 => runs[r1].ctx # runs[r2].ctx
     /\ \A r \in 1..Len(runs) : runs[r].num >= 1)
        => Cardinality(InFlight) <= LastWorkerNum

\* C3: a job that panics does not terminate the worker that ran it: the
\* step that ends a panicking job puts the worker back into its select and
\* leaves the set of live workers as it was.
C3_PanicKeepsWorker ==
    [][\A w \in Workers :
         (wstate[w] = "running" /\ kind[wjob[w]] = "panic" /\ wstate'[w] # "running")
            => (wstate'[w] = "select" /\ LiveWorkers' = LiveWorkers)]_vars

\* C3 witness: the only worker ever started has run a panicking job to its
\* end and is now executing a later job.
C3_Witness ==
    \E w \in Workers, i, j \in Inputs :
        /\ i # j
        /\ {v \in Workers : wstate[v] # "none"} = {w}
        /\ kind[i] = "panic" /\ started[i] = 1
        /\ wstate[w] = "running" /\ wjob[w] = j

\* Some worker is alive whose context is not cancelled.
Serving == \E w \in LiveWorkers : ~cancelled[CtxOf(w)]

\* C4, the safety part: an input whose job was stored in the queue has
\* exactly one job, stored once; a job is started at most once, is held by
\* at most one worker, and calls the handler at most once.
C4_AtMostOnce ==
    \A i \in Inputs :
        /\ enqueued[i] >= 1 => (created[i] = 1 /\ enqueued[i] = 1)
        /\ started[i] <= 1
        /\ handled[i] <= 1
        /\ Cardinality({w \in Workers : wjob[w] = i}) <= 1

\* C4: every input enqueued successfully gets exactly one job, executed at
\* most once by at most one worker; while some worker of an un-cancelled
\* context is alive, the job is eventually executed, calling the handler
\* once with that input.  An enqueued input stays enqueued and an executed
\* one stays executed, so "eventually executed" is: again and again, every
\* input enqueued so far has been executed or no worker is serving.
C4_ExactlyOneJob ==
    /\ []C4_AtMostOnce
    /\ [][\A i \in Inputs :
            /\ enqueued[i] = 1 => enqueued'[i] = 1
            /\ (started[i] = 1 /\ handled[i] = 1) => (started'[i] = 1 /\ handled'[i] = 1)]_vars
    /\ []<>(~Serving \/ \A i \in Inputs : enqueued[i] = 1 => (started[i] = 1 /\ handled[i] = 1))

\* C4 witness: every input has been enqueued and executed once, by workers
\* of a context that is not cancelled.
C4_Witness ==
    /\ \A i \in Inputs : enqueued[i] = 1 /\ handled[i] = 1
    /\ Serving

\* C5: a worker has stopped only if its context was cancelled; the step a
\* worker takes while executing a job ends the job and returns it to the
\* select (it is never stopped in the middle of a job); and once its
\* context is cancelled every worker eventually stops.  A cancelled context
\* stays cancelled, a started worker stays started and a stopped one stays
\* stopped, so "eventually stops" is: again and again, every started worker
\* of a cancelled context has stopped.
C5_StopOnlyOnCancel ==
    /\ [](\A w \in Workers : wstate[w] = "stopped" => cancelled[CtxOf(w)])
    /\ [][\A w \in Workers :
            /\ wstate[w] = "running" => wstate'[w] \in {"running", "select"}
            /\ wstate[w] = "stopped" => wstate'[w] = "stopped"
            /\ wstate[w] # "none" => wstate'[w] # "none"
            /\ (wstate[w] # "none" /\ cancelled[CtxOf(w)]) => cancelled'[CtxOf(w)]]_vars
    /\ []<>(\A w \in Workers :
              (wstate[w] # "none" /\ cancelled[CtxOf(w)]) => wstate[w] = "stopped")

\* C5 witness: a worker is still executing a job although its context is
\* cancelled and a sibling of the same Run has already stopped.
C5_Witness ==
    \E w, v \in Workers :
        /\ w[1] = v[1]
        /\ wstate[w] = "running" /\ cancelled[CtxOf(w)]
        /\ wstate[v] = "stopped"

\* C6: once a worker's context is cancelled the worker starts no job that
\* is waiting in the queue.
C6_NoStartAfterCancel ==
    [][\A w \in Workers :
         (wstate[w] = "select" /\ cancelled[CtxOf(w)]) => wstate'[w] # "running"]_vars

\* C7: after the context of the running pool is cancelled no EnqueueJob
\* call adds a job to the queue.
C7_NoEnqueueAfterCancel ==
    [][(runs # <<>> /\ cancelled[LastCtx]) => Len(jobReceiver') <= Len(jobReceiver)]_vars

\* C8: IsRunning is true from a successful Run until that Run's context is
\* cancelled; after the cancellation it eventually becomes false; and once
\* false it becomes true again only by the next successful Run.
C8_IsRunning ==
    /\ []((runs # <<>> /\ ~cancelled[LastCtx]) => IsRunning)
    /\ (runs # <<>> /\ cancelled[LastCtx]) ~> ~IsRunning
    /\ [][(~IsRunning /\ IsRunning') => (Len(runs') = Len(runs) + 1 /\ runErr' = "nil")]_vars

\* C8 witness: the first Run's context was cancelled and IsRunning went
\* false, a second Run succeeded and IsRunning is true again.
C8_Witness ==
    /\ Len(runs) = 2
    /\ watcher[1] = "done"
    /\ IsRunning
    /\ ~cancelled[LastCtx]


(***************************************************************************)
(* The bot supervisor.  The runner gives every bot a context derived from  *)
(* its own and an error-notification function; the adapter calls the       *)
(* function with the errors it cannot handle.  An error is first handed to *)
(* the bot's supervisor and then handled by it: a BotNonContinuableError   *)
(* cancels the bot's context and is reported to the alerters, any other    *)
(* error is logged.                                                        *)
(***************************************************************************)
ErrKinds == {"NonContinuable", "Other"}

\* The bot's context is done.
BotCtxDone(b) == botErr[b] = "Canceled"

\* errSupervisor(err): the adapter of bot b passes an error of kind k.
errSupervisor(b, k) ==
    /\ nNotify[b] < MaxNotify
    /\ escalated[b] = "none"
    /\ escalated' = [escalated EXCEPT ![b] = k]
    /\ passed' = [passed EXCEPT ![b] = @ \cup {k}]
    /\ nNotify' = [nNotify EXCEPT ![b] = @ + 1]
    /\ UNCHANGED <<rootDone, botErr, alerted>>
    /\ UNCHANGED <<poolVars, adapterVars, registryVars, contextVars, extVars>>

\* A faulty supervisor: every escalated error stops the bot.
botSupervisor_StopOnAny(b) ==
    /\ escalated[b] # "none"
    /\ botErr' = [botErr EXCEPT ![b] = "Canceled"]
    /\ alerted' = [alerted EXCEPT ![b] = @ + 1]
    /\ escalated' = [escalated EXCEPT ![b] = "none"]
    /\ UNCHANGED <<rootDone, passed, nNotify>>
    /\ UNCHANGED <<poolVars, adapterVars, registryVars, contextVars, extVars>>

\* The supervisor of bot b handles the escalated error.
botSupervisor(b) ==
    /\ escalated[b] # "none"
    /\ IF escalated[b] = "NonContinuable"
          THEN /\ botErr' = [botErr EXCEPT ![b] = "Canceled"]
               /\ alerted' = [alerted EXCEPT ![b] = @ + 1]
          ELSE UNCHANGED <<botErr, alerted>>
    /\ escalated' = [escalated EXCEPT ![b] = "none"]
    /\ UNCHANGED <<rootDone, passed, nNotify>>
    /\ UNCHANGED <<poolVars, adapterVars, registryVars, contextVars, extVars>>

\* The runner's context is cancelled, and with it every bot's context.
CancelRoot ==
    /\ ~rootDone
    /\ rootDone' = TRUE
    /\ botErr' = [b \in Bots |-> "Canceled"]
    /\ UNCHANGED <<escalated, passed, nNotify, alerted>>
    /\ UNCHANGED <<poolVars, adapterVars, registryVars, contextVars, extVars>>

SupervisorNext ==
    \/ \E b \in Bots, k \in ErrKinds : errSupervisor(b, k)
    \/ \E b \in Bots : botSupervisor(b)
    \/ CancelRoot

\* The supervisor is a goroutine of its own: an error handed to it is handled.
SupervisorSpec ==
    /\ Init
    /\ [][SupervisorNext]_vars
    /\ \A b \in Bots : WF_vars(botSupervisor(b))

(***************************************************************************)
(* Claims about the bot supervisor.                                        *)
(***************************************************************************)

\* C9: a bot's context is cancelled only when a BotNonContinuableError was
\* passed to its error-notification function or the runner's context was
\* cancelled, it is then cancelled with the cancellation error, no other
\* error cancels it, and once a BotNonContinuableError is passed the bot's
\* context is eventually cancelled.
C9_CancelIffNonContinuable ==
    /\ [](\A b \in Bots :
            BotCtxDone(b) => ("NonContinuable" \in passed[b] \/ rootDone))
    /\ [][\A b \in Bots :
            (escalated[b] = "Other" /\ escalated'[b] = "none" /\ ~rootDone')
                => botErr'[b] = botErr[b]]_vars
    /\ \A b \in Bots : ("NonContinuable" \in passed[b]) ~> BotCtxDone(b)

\* A non-continuable error stopped one bot while the runner and the other
\* bot, which reported an ordinary error that was handled, go on.
C9_Witness ==
    /\ ~rootDone
    /\ BotCtxDone("slack")
    /\ "NonContinuable" \in passed["slack"]
    /\ passed["gitter"] = {"Other"}
    /\ escalated["gitter"] = "none"
    /\ ~BotCtxDone("gitter")


(***************************************************************************)
(* slack.Adapter.  Run connects (two retried calls: StartRTMSession, then  *)
(* ConnectRTM), starts receivePayload for the connection and supervises    *)
(* the connection until the context is cancelled or a ping fails; after a  *)
(* failed ping it closes the connection and connects again.  The outcome   *)
(* of every call to the Slack API and to the connection is the             *)
(* environment's choice.                                                   *)
(***************************************************************************)
\* The context of connection k (derived from the one given to Run) is done.
ConnCtxDone(k) == ctxDone \/ sConnDone[k]

\* retry.WithPolicy: after a failed attempt, `failed` attempts having failed
\* before it, the policy allows no further attempt and returns the error.
WithPolicy_Exhausted(failed) == failed + 1 >= RetryTrial

\* Run is called.
SlackRun ==
    /\ botType = "slack"
    /\ sPc = "idle"
    /\ sPc' = "startRTM"
    /\ sTrial' = 0
    /\ UNCHANGED <<sConn, sClosed, sConnDone, sRecv, tryPing, messageQueue, sendPc>>
    /\ UNCHANGED <<botType, ctxDone, notifyErrs, gitterVars>>
    /\ UNCHANGED lastVars
    /\ UNCHANGED <<poolVars, supervisorVars, registryVars, contextVars, extVars>>

\* A faulty Run: connect failed for good, the failure is logged and Run
\* returns without telling the runner.
SlackRun_ConnectFailedSilently ==
    /\ sTrial' = sTrial + 1
    /\ sPc' = "returned"
    /\ UNCHANGED notifyErrs

\* connect returned an error: Run notifies the runner and returns.
SlackRun_ConnectFailed ==
    /\ sTrial' = sTrial + 1
    /\ notifyErrs' = Append(notifyErrs, "NonContinuable")
    /\ sPc' = "returned"

\* One attempt of StartRTMSession within connect.
connect_StartRTMSession(ok) ==
    /\ botType = "slack"
    /\ sPc = "startRTM"
    /\ IF ok
          THEN sPc' = "connectRTM" /\ sTrial' = 0 /\ UNCHANGED notifyErrs
          ELSE IF ~WithPolicy_Exhausted(sTrial)
                  THEN sTrial' = sTrial + 1 /\ UNCHANGED <<sPc, notifyErrs>>
                  ELSE SlackRun_ConnectFailed
    /\ UNCHANGED <<sConn, sClosed, sConnDone, sRecv, tryPing, messageQueue, sendPc>>
    /\ UNCHANGED <<botType, ctxDone, gitterVars>>
    /\ UNCHANGED lastVars
    /\ UNCHANGED <<poolVars, supervisorVars, registryVars, contextVars, extVars>>

\* One attempt of ConnectRTM within connect; on success Run starts
\* receivePayload and enters superviseConnection.
connect_ConnectRTM(ok) ==
    /\ botType = "slack"
    /\ sPc = "connectRTM"
    /\ IF ok
          THEN /\ sConn' = sConn + 1
               /\ sRecv' = [sRecv EXCEPT ![sConn + 1] = "select"]
               /\ sPc' = "supervise"
               /\ sTrial' = 0
               /\ UNCHANGED notifyErrs
          ELSE /\ IF ~WithPolicy_Exhausted(sTrial)
                     THEN sTrial' = sTrial + 1 /\ UNCHANGED <<sPc, notifyErrs>>
                     ELSE SlackRun_ConnectFailed
               /\ UNCHANGED <<sConn, sRecv>>
    /\ UNCHANGED <<sClosed, sConnDone, tryPing, messageQueue, sendPc>>
    /\ UNCHANGED <<botType, ctxDone, gitterVars>>
    /\ UNCHANGED lastVars
    /\ UNCHANGED <<poolVars, supervisorVars, registryVars, contextVars, extVars>>

\* A faulty Run: whatever superviseConnection returned, Run closes the
\* connection, cancels its context and returns.
SlackRun_Supervised_Return(connErr) ==
    /\ sClosed' = [sClosed EXCEPT ![sConn] = @ + 1]
    /\ sConnDone' = [sConnDone EXCEPT ![sConn] = TRUE]
    /\ sPc' = "returned"
    /\ sTrial' = 0

\* superviseConnection returned connErr: Run closes the connection, cancels
\* its context and either returns (nil) or connects again (an error).
SlackRun_Supervised(connErr) ==
    /\ sClosed' = [sClosed EXCEPT ![sConn] = @ + 1]
    /\ sConnDone' = [sConnDone EXCEPT ![sConn] = TRUE]
    /\ sPc' = IF connErr = "nil" THEN "returned" ELSE "startRTM"
    /\ sTrial' = 0

\* A faulty Run: it returns when the supervision ends without closing the
\* connection or cancelling its context.
superviseConnection_DoneNoCleanup ==
    /\ botType = "slack"
    /\ sPc = "supervise"
    /\ ConnCtxDone(sConn)
    /\ sPc' = "returned"
    /\ UNCHANGED <<sTrial, sClosed, sConnDone>>
    /\ UNCHANGED <<sConn, sRecv, tryPing, messageQueue, sendPc>>
    /\ UNCHANGED <<botType, ctxDone, notifyErrs, gitterVars>>
    /\ UNCHANGED lastVars
    /\ UNCHANGED <<poolVars, supervisorVars, registryVars, contextVars, extVars>>

\* superviseConnection: the connection's context is done.
superviseConnection_Done ==
    /\ botType = "slack"
    /\ sPc = "supervise"
    /\ ConnCtxDone(sConn)
    /\ SlackRun_Supervised("nil")
    /\ UNCHANGED <<sConn, sRecv, tryPing, messageQueue, sendPc>>
    /\ UNCHANGED <<botType, ctxDone, notifyErrs, gitterVars>>
    /\ UNCHANGED lastVars
    /\ UNCHANGED <<poolVars, supervisorVars, registryVars, contextVars, extVars>>

\* A faulty superviseConnection: a failed Send ends the supervision with an
\* error, without a ping.
superviseConnection_Message_NoPing(sendOk, pingOk) ==
    /\ botType = "slack"
    /\ sPc = "supervise"
    /\ messageQueue > 0
    /\ messageQueue' = messageQueue - 1
    /\ lastSupervise' = [send |-> IF sendOk THEN "ok" ELSE "failed", ping |-> "none", by |-> "none"]
    /\ IF sendOk
          THEN UNCHANGED <<sPc, sTrial, sClosed, sConnDone>>
          ELSE sConn < MaxConns /\ SlackRun_Supervised("error")
    /\ UNCHANGED <<sConn, sRecv, tryPing, sendPc>>
    /\ UNCHANGED <<botType, ctxDone, notifyErrs, gitterVars, lastReceive>>
    /\ UNCHANGED <<poolVars, supervisorVars, registryVars, contextVars, extVars>>

\* superviseConnection: a queued message is sent; when sending fails the
\* connection is pinged, and a failed ping ends the supervision.  A
\* connection fails at most MaxConns - 1 times.
superviseConnection_Message(sendOk, pingOk) ==
    /\ botType = "slack"
    /\ sPc = "supervise"
    /\ messageQueue > 0
    /\ messageQueue' = messageQueue - 1
    /\ lastSupervise' = IF sendOk
                           THEN [send |-> "ok", ping |-> "none", by |-> "none"]
                           ELSE [send |-> "failed", by |-> "send",
                                 ping |-> IF pingOk THEN "ok" ELSE "failed"]
    /\ IF sendOk \/ pingOk
          THEN UNCHANGED <<sPc, sTrial, sClosed, sConnDone>>
          ELSE sConn < MaxConns /\ SlackRun_Supervised("error")
    /\ UNCHANGED <<sConn, sRecv, tryPing, sendPc>>
    /\ UNCHANGED <<botType, ctxDone, notifyErrs, gitterVars, lastReceive>>
    /\ UNCHANGED <<poolVars, supervisorVars, registryVars, contextVars, extVars>>

\* nonBlockSignal(tryPing): a signal is put unless one is already buffered.
nonBlockSignal(k, by) == tryPing' = [tryPing EXCEPT ![k] = IF @ = "none" THEN by ELSE @]

\* superviseConnection: the ping ticker fires.
superviseConnection_Tick ==
    /\ botType = "slack"
    /\ sPc = "supervise"
    /\ nonBlockSignal(sConn, "ticker")
    /\ UNCHANGED <<sPc, sTrial, sConn, sClosed, sConnDone, sRecv, messageQueue, sendPc>>
    /\ UNCHANGED <<botType, ctxDone, notifyErrs, gitterVars>>
    /\ UNCHANGED lastVars
    /\ UNCHANGED <<poolVars, supervisorVars, registryVars, contextVars, extVars>>

\* A faulty Run: after a failed ping it connects again and leaves the
\* connection open.
superviseConnection_TryPing_NoClose(pingOk) ==
    /\ botType = "slack"
    /\ sPc = "supervise"
    /\ tryPing[sConn] # "none"
    /\ tryPing' = [tryPing EXCEPT ![sConn] = "none"]
    /\ lastSupervise' = [send |-> "none", by |-> tryPing[sConn],
                         ping |-> IF pingOk THEN "ok" ELSE "failed"]
    /\ IF pingOk
          THEN UNCHANGED <<sPc, sTrial, sClosed, sConnDone>>
          ELSE sConn < MaxConns /\ sPc' = "startRTM" /\ sTrial' = 0 /\ UNCHANGED <<sClosed, sConnDone>>
    /\ UNCHANGED <<sConn, sRecv, messageQueue, sendPc>>
    /\ UNCHANGED <<botType, ctxDone, notifyErrs, gitterVars, lastReceive>>
    /\ UNCHANGED <<poolVars, supervisorVars, registryVars, contextVars, extVars>>

\* superviseConnection: a ping was requested.
superviseConnection_TryPing(pingOk) ==
    /\ botType = "slack"
    /\ sPc = "supervise"
    /\ tryPing[sConn] # "none"
    /\ tryPing' = [tryPing EXCEPT ![sConn] = "none"]
    /\ lastSupervise' = [send |-> "none", by |-> tryPing[sConn],
                         ping |-> IF pingOk THEN "ok" ELSE "failed"]
    /\ IF pingOk
          THEN UNCHANGED <<sPc, sTrial, sClosed, sConnDone>>
          ELSE sConn < MaxConns /\ SlackRun_Supervised("error")
    /\ UNCHANGED <<sConn, sRecv, messageQueue, sendPc>>
    /\ UNCHANGED <<botType, ctxDone, notifyErrs, gitterVars, lastReceive>>
    /\ UNCHANGED <<poolVars, supervisorVars, registryVars, contextVars, extVars>>

\* receivePayload of connection k, at its select.
receivePayload_Select(k) ==
    /\ botType = "slack"
    /\ sRecv[k] = "select"
    /\ sRecv' = [sRecv EXCEPT ![k] = IF ConnCtxDone(k) THEN "returned" ELSE "receive"]
    /\ UNCHANGED <<sPc, sTrial, sConn, sClosed, sConnDone, tryPing, messageQueue, sendPc>>
    /\ UNCHANGED <<botType, ctxDone, notifyErrs, gitterVars>>
    /\ UNCHANGED lastVars
    /\ UNCHANGED <<poolVars, supervisorVars, registryVars, contextVars, extVars>>

\* What Receive of a connection returns: a decoded payload with a nil error,
\* or a nil payload with an error or (nothing decoded) with none.
ReceiveErrors == {"ErrEmptyPayload", "MalformedPayloadError", "UnexpectedMessageTypeError", "other"}
ReceiveResults ==
    {[payload |-> "payload", err |-> "nil"]}
       \cup {[payload |-> "nil", err |-> e] : e \in ReceiveErrors \cup {"nil"}}

\* A faulty receivePayload: every payload Receive returns is handled.
payloadHandled_Always(res) == TRUE

\* receivePayload: the result of Receive gets to adapter.payloadHandler.  The
\* empty payload and any error that is not about the payload's content
\* `continue`; the two errors about the content are logged, and like a nil
\* error they go on to the test of the payload.
payloadHandled(res) ==
    /\ res.err # "ErrEmptyPayload"
    /\ res.err \in {"MalformedPayloadError", "UnexpectedMessageTypeError", "nil"}
    /\ res.payload # "nil"

\* receivePayload of connection k: Receive returned.  A connection error
\* requests a ping; a payload is given to the payload handler.
receivePayload_Receive(k, res) ==
    /\ botType = "slack"
    /\ sRecv[k] = "receive"
    /\ sRecv' = [sRecv EXCEPT ![k] = "select"]
    /\ IF res.err = "other" THEN nonBlockSignal(k, "receive") ELSE UNCHANGED tryPing
    /\ lastReceive' = [payload |-> res.payload, err |-> res.err,
                       handled |-> IF payloadHandled(res) THEN 1 ELSE 0]
    /\ UNCHANGED <<sPc, sTrial, sConn, sClosed, sConnDone, messageQueue, sendPc>>
    /\ UNCHANGED <<botType, ctxDone, notifyErrs, gitterVars, lastSupervise>>
    /\ UNCHANGED <<poolVars, supervisorVars, registryVars, contextVars, extVars>>

\* SendMessage with a text: the message is sent to messageQueue; the caller
\* is suspended while the queue is full.
SendMessage ==
    /\ botType = "slack"
    /\ sendPc = "idle"
    /\ IF messageQueue < SendingQueueSize
          THEN messageQueue' = messageQueue + 1 /\ UNCHANGED sendPc
          ELSE sendPc' = "blocked" /\ UNCHANGED messageQueue
    /\ UNCHANGED <<sPc, sTrial, sConn, sClosed, sConnDone, sRecv, tryPing>>
    /\ UNCHANGED <<botType, ctxDone, notifyErrs, gitterVars>>
    /\ UNCHANGED lastVars
    /\ UNCHANGED <<poolVars, supervisorVars, registryVars, contextVars, extVars>>

\* The suspended send completes once the queue has room.
SendMessage_Resume ==
    /\ botType = "slack"
    /\ sendPc = "blocked"
    /\ messageQueue < SendingQueueSize
    /\ messageQueue' = messageQueue + 1
    /\ sendPc' = "idle"
    /\ UNCHANGED <<sPc, sTrial, sConn, sClosed, sConnDone, sRecv, tryPing>>
    /\ UNCHANGED <<botType, ctxDone, notifyErrs, gitterVars>>
    /\ UNCHANGED lastVars
    /\ UNCHANGED <<poolVars, supervisorVars, registryVars, contextVars, extVars>>

\* The context given to the adapter's Run is cancelled.
CancelAdapter ==
    /\ botType # "none"
    /\ ~ctxDone
    /\ ctxDone' = TRUE
    /\ UNCHANGED <<botType, notifyErrs, slackVars, gitterVars>>
    /\ UNCHANGED lastVars
    /\ UNCHANGED <<poolVars, supervisorVars, registryVars, contextVars, extVars>>


(***************************************************************************)
(* gitter.Adapter.  Run fetches the joined rooms (a retried call), starts  *)
(* runEachRoom for every room and returns.  runEachRoom connects to the    *)
(* room's stream (retried), receives messages until Receive fails, closes  *)
(* the connection and starts over unless the context is done.              *)
(***************************************************************************)
\* Run is called.
GitterRun ==
    /\ botType = "gitter"
    /\ gPc = "idle"
    /\ gPc' = "rooms"
    /\ gTrial' = 0
    /\ UNCHANGED <<gFetched, room, roomTrial, roomConn, roomClosed>>
    /\ UNCHANGED <<botType, ctxDone, notifyErrs, slackVars>>
    /\ UNCHANGED lastVars
    /\ UNCHANGED <<poolVars, supervisorVars, registryVars, contextVars, extVars>>

\* Fetching the rooms failed for good: Run notifies the runner and returns.
GitterRun_RoomsFailed ==
    /\ gTrial' = gTrial + 1
    /\ notifyErrs' = Append(notifyErrs, "NonContinuable")
    /\ gPc' = "returned"
    /\ UNCHANGED <<gFetched, room>>

\* One attempt of apiClient.Rooms; on success (the account has joined the
\* rooms rs) Run starts runEachRoom for each of them and returns.
GitterRun_Rooms(ok, rs) ==
    /\ botType = "gitter"
    /\ gPc = "rooms"
    /\ IF ok
          THEN /\ gFetched' = TRUE
               /\ room' = [r \in Rooms |-> IF r \in rs THEN "select" ELSE room[r]]
               /\ gPc' = "returned"
               /\ UNCHANGED <<gTrial, notifyErrs>>
          ELSE IF ~WithPolicy_Exhausted(gTrial)
                  THEN gTrial' = gTrial + 1 /\ UNCHANGED <<gPc, gFetched, room, notifyErrs>>
                  ELSE GitterRun_RoomsFailed
    /\ UNCHANGED <<roomTrial, roomConn, roomClosed>>
    /\ UNCHANGED <<botType, ctxDone, slackVars>>
    /\ UNCHANGED lastVars
    /\ UNCHANGED <<poolVars, supervisorVars, registryVars, contextVars, extVars>>

\* runEachRoom of room r, at its select: return when the context is done,
\* connect otherwise.
runEachRoom_Select(r) ==
    /\ botType = "gitter"
    /\ room[r] = "select"
    /\ room' = [room EXCEPT ![r] = IF ctxDone THEN "returned" ELSE "connecting"]
    /\ roomTrial' = [roomTrial EXCEPT ![r] = 0]
    /\ UNCHANGED <<gPc, gTrial, gFetched, roomConn, roomClosed>>
    /\ UNCHANGED <<botType, ctxDone, notifyErrs, slackVars>>
    /\ UNCHANGED lastVars
    /\ UNCHANGED <<poolVars, supervisorVars, registryVars, contextVars, extVars>>

\* One attempt of streamingClient.Connect; when the attempts are used up
\* the failure is logged and runEachRoom returns.
runEachRoom_Connect(r, ok) ==
    /\ botType = "gitter"
    /\ room[r] = "connecting"
    /\ IF ok
          THEN /\ roomConn' = [roomConn EXCEPT ![r] = @ + 1]
               /\ room' = [room EXCEPT ![r] = "receiving"]
               /\ UNCHANGED roomTrial
          ELSE /\ roomTrial' = [roomTrial EXCEPT ![r] = @ + 1]
               /\ room' = [room EXCEPT ![r] =
                              IF WithPolicy_Exhausted(roomTrial[r]) THEN "returned" ELSE @]
               /\ UNCHANGED roomConn
    /\ UNCHANGED <<gPc, gTrial, gFetched, roomClosed>>
    /\ UNCHANGED <<botType, ctxDone, notifyErrs, slackVars>>
    /\ UNCHANGED lastVars
    /\ UNCHANGED <<poolVars, supervisorVars, registryVars, contextVars, extVars>>

\* What Receive of a room's connection returns: a message with a nil error
\* or no message with an error.
GitterReceiveResults ==
    {[payload |-> "message", err |-> "nil"]}
       \cup {[payload |-> "nil", err |-> e] :
                 e \in {"ErrEmptyPayload", "MalformedPayloadError", "other"}}

\* A faulty receiveMessageRecursive: a malformed payload ends the loop.
receiveMessageRecursive_StrictPayload(res) ==
    IF res.err = "ErrEmptyPayload" THEN "continue"
    ELSE IF res.err # "nil" THEN "return"
    ELSE "enqueue"

\* One turn of the loop of receiveMessageRecursive on the result of Receive:
\* it skips the result, returns the error or calls enqueueInput.
receiveMessageRecursive(res) ==
    IF res.err = "ErrEmptyPayload" THEN "continue"
    ELSE IF res.err = "MalformedPayloadError" THEN "continue"
    ELSE IF res.err # "nil" THEN "return"
    ELSE "enqueue"

\* receiveMessageRecursive of room r: Receive returned and the loop goes on.
receiveMessageRecursive_Receive(r, res) ==
    /\ botType = "gitter"
    /\ room[r] = "receiving"
    /\ receiveMessageRecursive(res) # "return"
    /\ lastReceive' = [payload |-> res.payload, err |-> res.err,
                       handled |-> IF receiveMessageRecursive(res) = "enqueue" THEN 1 ELSE 0]
    /\ UNCHANGED <<gPc, gTrial, gFetched, room, roomTrial, roomConn, roomClosed>>
    /\ UNCHANGED <<botType, ctxDone, notifyErrs, slackVars, lastSupervise>>
    /\ UNCHANGED <<poolVars, supervisorVars, registryVars, contextVars, extVars>>

\* receiveMessageRecursive returned the error of Receive; runEachRoom
\* closes the connection and loops.  A room's connection fails at most
\* MaxConns - 1 times while the context is live.
runEachRoom_Disconnected(r, res) ==
    /\ botType = "gitter"
    /\ room[r] = "receiving"
    /\ receiveMessageRecursive(res) = "return"
    /\ roomConn[r] < MaxConns \/ ctxDone
    /\ roomClosed' = [roomClosed EXCEPT ![r] = @ + 1]
    /\ room' = [room EXCEPT ![r] = "select"]
    /\ lastReceive' = [payload |-> res.payload, err |-> res.err, handled |-> 0]
    /\ UNCHANGED <<gPc, gTrial, gFetched, roomTrial, roomConn>>
    /\ UNCHANGED <<botType, ctxDone, notifyErrs, slackVars, lastSupervise>>
    /\ UNCHANGED <<poolVars, supervisorVars, registryVars, contextVars, extVars>>

AdapterNext ==
    \/ SlackRun
    \/ \E ok \in BOOLEAN : connect_StartRTMSession(ok)
    \/ \E ok \in BOOLEAN : connect_ConnectRTM(ok)
    \/ superviseConnection_Done
    \/ \E sendOk, pingOk \in BOOLEAN : superviseConnection_Message(sendOk, pingOk)
    \/ superviseConnection_Tick
    \/ \E pingOk \in BOOLEAN : superviseConnection_TryPing(pingOk)
    \/ \E k \in Conns : receivePayload_Select(k)
    \/ \E k \in Conns, res \in ReceiveResults : receivePayload_Receive(k, res)
    \/ SendMessage
    \/ SendMessage_Resume
    \/ GitterRun
    \/ \E ok \in BOOLEAN, rs \in SUBSET Rooms : GitterRun_Rooms(ok, rs)
    \/ \E r \in Rooms : runEachRoom_Select(r)
    \/ \E r \in Rooms, ok \in BOOLEAN : runEachRoom_Connect(r, ok)
    \/ \E r \in Rooms, res \in GitterReceiveResults : receiveMessageRecursive_Receive(r, res)
    \/ \E r \in Rooms, res \in GitterReceiveResults : runEachRoom_Disconnected(r, res)
    \/ CancelAdapter

\* One adapter, the Slack or the Gitter one, is constructed and run.
AdapterInit ==
    /\ New /\ NewBotRunner /\ SupervisorInit /\ NewAdapter /\ RegistryInit /\ ContextInit
    /\ ExtInit
    /\ botType \in {"slack", "gitter"}

AdapterSpec == AdapterInit /\ [][AdapterNext]_vars

(***************************************************************************)
(* Scheduling of an adapter's goroutines.  A select whose Done case stays  *)
(* ready takes it eventually (Go chooses among the ready cases at random), *)
(* a call to the Slack or Gitter API returns, and a suspended channel send *)
(* completes once the channel has room.  Nothing obliges a connection to   *)
(* deliver a payload or to fail, nor the environment to cancel a context.  *)
(***************************************************************************)
AdapterFairness ==
    /\ WF_vars(superviseConnection_Done)
    /\ WF_vars(\E sendOk, pingOk \in BOOLEAN : superviseConnection_Message(sendOk, pingOk))
    /\ WF_vars(\E ok \in BOOLEAN : connect_StartRTMSession(ok))
    /\ WF_vars(\E ok \in BOOLEAN : connect_ConnectRTM(ok))
    /\ \A k \in Conns : WF_vars(receivePayload_Select(k))
    /\ WF_vars(SendMessage_Resume)
    /\ \A r \in Rooms : WF_vars(runEachRoom_Select(r))
    /\ \A r \in Rooms : WF_vars(\E ok \in BOOLEAN : runEachRoom_Connect(r, ok))

AdapterFairSpec == AdapterSpec /\ AdapterFairness

(***************************************************************************)
(* Claims about the adapters.                                              *)
(***************************************************************************)

\* Run gave up on its initial setup: it returned without ever having a
\* connection (Slack) or the rooms (Gitter).
SlackSetupFailed == botType = "slack" /\ sPc = "returned" /\ sConn = 0
GitterSetupFailed == botType = "gitter" /\ gPc = "returned" /\ ~gFetched

\* C10: when the initial setup of an adapter fails with its retries used
\* up, Run has called notifyErr exactly once, with a BotNonContinuableError,
\* has returned, and has started no receivePayload, superviseConnection or
\* runEachRoom; Run never notifies without returning.
C10_SetupFailureNotifiedOnce ==
    /\ SlackSetupFailed =>
          /\ sTrial = RetryTrial
          /\ notifyErrs = <<"NonContinuable">>
          /\ \A k \in Conns : sRecv[k] = "none" /\ sClosed[k] = 0
    /\ GitterSetupFailed =>
          /\ gTrial = RetryTrial
          /\ notifyErrs = <<"NonContinuable">>
          /\ \A r \in Rooms : room[r] = "none"
    /\ notifyErrs # <<>> =>
          /\ Len(notifyErrs) = 1
          /\ botType = "slack" => sPc = "returned"
          /\ botType = "gitter" => gPc = "returned"

\* The Slack adapter could not connect while its context was live, and Run
\* returned.
C10_Witness ==
    /\ SlackSetupFailed
    /\ ~ctxDone
    /\ notifyErrs = <<"NonContinuable">>

\* Some goroutine of the adapter may still receive from a connection.
SlackReceiving == \E k \in Conns : sRecv[k] \in {"select", "receive"}
GitterReceiving == \E r \in Rooms : room[r] \in {"select", "connecting", "receiving"}

\* C11: Run returns only after the context was cancelled or a
\* non-continuable error was notified, and never while a receive loop of
\* the adapter (Slack: receivePayload; Gitter: runEachRoom) is running.
C11_RunBlocksForLifetime ==
    /\ (botType = "slack" /\ sPc = "returned") =>
          (ctxDone \/ notifyErrs # <<>>) /\ ~SlackReceiving
    /\ (botType = "gitter" /\ gPc = "returned") =>
          (ctxDone \/ notifyErrs # <<>>) /\ ~GitterReceiving

\* C12: a room loop that gave up connecting (its retries used up) has
\* reported a BotNonContinuableError through notifyErr: no room loop has
\* returned while the context is live unless such an error was notified, and
\* the step that gives up notifies.
C12_RoomFailureNotified ==
    /\ [](\A r \in Rooms :
            (botType = "gitter" /\ room[r] = "returned" /\ ~ctxDone)
                => \E i \in 1..Len(notifyErrs) : notifyErrs[i] = "NonContinuable")
    /\ [][\A r \in Rooms :
            (room[r] = "connecting" /\ room'[r] = "returned")
                => notifyErrs' = Append(notifyErrs, "NonContinuable")]_vars

\* C13: once the context of the Slack Run is cancelled while connection k
\* is supervised, Run eventually has closed connection k, cancelled its
\* context and returned; and whenever Run has returned, every connection it
\* established is closed and its context cancelled.
C13_CancelClosesConnection ==
    /\ \A k \in Conns :
          (botType = "slack" /\ ctxDone /\ sPc = "supervise" /\ sConn = k)
              ~> (sClosed[k] >= 1 /\ sConnDone[k] /\ sPc = "returned")
    /\ [](sPc = "returned" =>
             \A k \in 1..sConn : sClosed[k] >= 1 /\ sConnDone[k])

\* Run returned after the context was cancelled during the supervision of
\* its first connection.
C13_Witness ==
    /\ botType = "slack"
    /\ ctxDone
    /\ sPc = "returned"
    /\ sConn = 1
    /\ sClosed[1] = 1
    /\ sConnDone[1]
    /\ notifyErrs = <<>>

\* C14: SendMessage with a text returns to its caller: a caller suspended in
\* the send to messageQueue is eventually released, also when no connection
\* is being supervised.
C14_SendMessageReturns ==
    (botType = "slack" /\ sendPc = "blocked") ~> (sendPc = "idle")

(***************************************************************************)
(* BotRunner: registration of adapters and command builders, Run, and the  *)
(* jobs respondMessage creates.                                            *)
(***************************************************************************)
Registered(t) == \E i \in 1..Len(botProperties) : botProperties[i] = t

\* A faulty AddAdapter: the adapter is appended without looking at the ones
\* already stored.
AddAdapter_NoCheck(t) ==
    /\ brPc = "idle"
    /\ Len(botProperties) < MaxAdapters
    /\ botProperties' = Append(botProperties, t)
    /\ addErr' = "nil"
    /\ UNCHANGED <<stashedCommandBuilder, nBuilders, commands, buildErrs, brPc, brIdx,
                   adapterRun, responder, nJobs, lastJob, sent>>
    /\ UNCHANGED <<poolVars, supervisorVars, adapterVars, contextVars, extVars>>

\* AddAdapter with an adapter of BotType t: panics when an adapter of this
\* BotType is stored, appends a new botProperty otherwise.
AddAdapter(t) ==
    /\ brPc = "idle"
    /\ IF Registered(t)
          THEN addErr' = "panic" /\ UNCHANGED botProperties
          ELSE /\ Len(botProperties) < MaxAdapters
               /\ botProperties' = Append(botProperties, t)
               /\ addErr' = "nil"
    /\ UNCHANGED <<stashedCommandBuilder, nBuilders, commands, buildErrs, brPc, brIdx,
                   adapterRun, responder, nJobs, lastJob, sent>>
    /\ UNCHANGED <<poolVars, supervisorVars, adapterVars, contextVars, extVars>>

\* The messages of the inputs, and the sets of messages a command may match.
Messages == {"echo", "hello"}
MatchSets == {{}, {"echo"}, Messages}

\* AppendCommandBuilder(t, builder): the builder is appended to the stash of
\* BotType t.  The builder is number nBuilders + 1; `good` tells whether
\* its build will succeed, `match` which messages its command matches.
AppendCommandBuilder(t, good, match) ==
    /\ brPc = "idle"
    /\ nBuilders < MaxBuilders
    /\ nBuilders' = nBuilders + 1
    /\ stashedCommandBuilder' =
          [stashedCommandBuilder EXCEPT
              ![t] = Append(@, [id |-> nBuilders + 1, good |-> good, match |-> match])]
    /\ UNCHANGED <<botProperties, addErr, commands, buildErrs, brPc, brIdx,
                   adapterRun, responder, nJobs, lastJob, sent>>
    /\ UNCHANGED <<poolVars, supervisorVars, adapterVars, contextVars, extVars>>

\* A faulty buildCommands: the first builder that fails ends the loop.
RECURSIVE buildCommands_AbortOnError(_, _, _)
buildCommands_AbortOnError(builders, i, acc) ==
    IF i > Len(builders)
       THEN acc
       ELSE IF builders[i].good
               THEN buildCommands_AbortOnError(builders, i + 1,
                       [acc EXCEPT !.commands =
                           Append(@, [id |-> builders[i].id, match |-> builders[i].match])])
               ELSE [acc EXCEPT !.logged = Append(@, builders[i].id)]

\* buildCommands: the loop over the builders from the i-th on; acc holds the
\* commands built and the identifiers logged so far.  A builder whose build
\* returns an error is logged and skipped.
RECURSIVE buildCommands(_, _, _)
buildCommands(builders, i, acc) ==
    IF i > Len(builders)
       THEN acc
       ELSE IF builders[i].good
               THEN buildCommands(builders, i + 1,
                       [acc EXCEPT !.commands =
                           Append(@, [id |-> builders[i].id, match |-> builders[i].match])])
               ELSE buildCommands(builders, i + 1,
                       [acc EXCEPT !.logged = Append(@, builders[i].id)])

\* Run is called: the workers are started and the loop over the registered
\* bots begins.
Run_Start ==
    /\ brPc = "idle"
    /\ brPc' = "loop"
    /\ brIdx' = 1
    /\ UNCHANGED <<botProperties, addErr, stashedCommandBuilder, nBuilders, commands, buildErrs,
                   adapterRun, responder, nJobs, lastJob, sent>>
    /\ UNCHANGED <<poolVars, supervisorVars, adapterVars, contextVars, extVars>>

\* The loop body of Run for the bot at brIdx: without stashed builders for
\* its BotType the bot is skipped; otherwise its commands are built and
\* appended and its adapter's Run is called.
Run_Bot ==
    /\ brPc = "loop"
    /\ brIdx <= Len(botProperties)
    /\ LET builders == stashedCommandBuilder[botProperties[brIdx]]
           built == buildCommands(builders, 1, [commands |-> <<>>, logged |-> <<>>])
       IN  IF builders = <<>>
              THEN /\ brIdx' = brIdx + 1
                   /\ UNCHANGED <<commands, buildErrs, adapterRun, brPc>>
              ELSE /\ commands' = [commands EXCEPT ![brIdx] = @ \o built.commands]
                   /\ buildErrs' = buildErrs \o built.logged
                   /\ adapterRun' = [adapterRun EXCEPT ![brIdx] = @ + 1]
                   /\ brPc' = "adapterRun"
                   /\ UNCHANGED brIdx
    /\ UNCHANGED <<botProperties, addErr, stashedCommandBuilder, nBuilders,
                   responder, nJobs, lastJob, sent>>
    /\ UNCHANGED <<poolVars, supervisorVars, adapterVars, contextVars, extVars>>

\* The adapter's Run returned: the bot's respondMessage is started and the
\* loop goes on.  (An adapter whose Run does not return leaves Run here.)
Run_AdapterReturned ==
    /\ brPc = "adapterRun"
    /\ responder' = [responder EXCEPT ![brIdx] = @ + 1]
    /\ brIdx' = brIdx + 1
    /\ brPc' = "loop"
    /\ UNCHANGED <<botProperties, addErr, stashedCommandBuilder, nBuilders, commands, buildErrs,
                   adapterRun, nJobs, lastJob, sent>>
    /\ UNCHANGED <<poolVars, supervisorVars, adapterVars, contextVars, extVars>>

\* The loop of Run is over.
Run_Return ==
    /\ brPc = "loop"
    /\ brIdx > Len(botProperties)
    /\ brPc' = "done"
    /\ UNCHANGED <<botProperties, addErr, stashedCommandBuilder, nBuilders, commands, buildErrs,
                   brIdx, adapterRun, responder, nJobs, lastJob, sent>>
    /\ UNCHANGED <<poolVars, supervisorVars, adapterVars, contextVars, extVars>>

\* A faulty FindFirstMatched: a later command that matches wins.
RECURSIVE FindFirstMatched_LastWins(_, _, _)
FindFirstMatched_LastWins(cmds, msg, i) ==
    IF i > Len(cmds)
       THEN 0
       ELSE LET later == FindFirstMatched_LastWins(cmds, msg, i + 1)
            IN  IF later # 0 THEN later
                ELSE IF msg \in cmds[i].match THEN cmds[i].id ELSE 0

\* Commands.FindFirstMatched: the scan of the commands from the i-th on, in
\* the order of their Append; the identifier of the first command that
\* matches msg, 0 when none does.
RECURSIVE FindFirstMatched(_, _, _)
FindFirstMatched(cmds, msg, i) ==
    IF i > Len(cmds)
       THEN 0
       ELSE IF msg \in cmds[i].match THEN cmds[i].id
            ELSE FindFirstMatched(cmds, msg, i + 1)

\* The job respondMessage enqueues for an input of the i-th bot with message
\* msg, executed by a worker: ExecuteFirstMatched returns (res, err), what
\* the command found returns, or (nil, nil) when no command matches; the
\* error is logged and a non-nil response is given to SendResponse.
respondMessage_Job(i, msg, res, err) ==
    /\ i <= Len(botProperties)
    /\ responder[i] >= 1
    /\ nJobs < MaxJobs
    /\ LET cmd == FindFirstMatched(commands[i], msg, 1)
       IN  /\ cmd = 0 => (res = "nil" /\ err = "nil")
           /\ lastJob' = [bot |-> i, msg |-> msg, cmd |-> cmd, res |-> res, err |-> err]
    /\ nJobs' = nJobs + 1
    /\ sent' = [sent EXCEPT ![i] = IF res # "nil" THEN @ + 1 ELSE @]
    /\ UNCHANGED <<botProperties, addErr, stashedCommandBuilder, nBuilders, commands, buildErrs,
                   brPc, brIdx, adapterRun, responder>>
    /\ UNCHANGED <<poolVars, supervisorVars, adapterVars, contextVars, extVars>>

BotRunnerNext ==
    \/ \E t \in Bots : AddAdapter(t)
    \/ \E t \in Bots, good \in BOOLEAN, match \in MatchSets :
          AppendCommandBuilder(t, good, match)
    \/ Run_Start
    \/ Run_Bot
    \/ Run_AdapterReturned
    \/ Run_Return
    \/ \E i \in 1..MaxAdapters, msg \in Messages,
          res \in {"nil", "response"}, err \in {"nil", "error"} :
          respondMessage_Job(i, msg, res, err)

BotRunnerSpec == Init /\ [][BotRunnerNext]_vars

(***************************************************************************)
(* Claims about the BotRunner.                                             *)
(***************************************************************************)

\* C16: the BotTypes of the registered bots are pairwise distinct, and an
\* AddAdapter with a BotType that is already registered panics and leaves
\* the registered bots as they were.
C16_DistinctBotTypes ==
    /\ [](\A i, j \in 1..Len(botProperties) :
              botProperties[i] = botProperties[j] => i = j)
    /\ [][\A t \in Bots :
              (Registered(t) /\ AddAdapter(t))
                  => (addErr' = "panic" /\ botProperties' = botProperties)]_vars

\* Both BotTypes are registered and a further registration was rejected.
C16_Witness ==
    /\ Len(botProperties) = 2
    /\ addErr = "panic"

\* C15: when Run has gone through the registered bots, the Run of every
\* registered adapter has been called exactly once and one responder has
\* been started for it, with or without stashed command builders; no
\* adapter's Run is ever called twice.
C15_EveryBotStarted ==
    /\ brPc = "done" =>
          \A i \in 1..Len(botProperties) : adapterRun[i] = 1 /\ responder[i] = 1
    /\ \A i \in 1..MaxAdapters : adapterRun[i] <= 1 /\ responder[i] <= 1

\* C17: a job sends a reply exactly when the execution returned a response
\* and no error: with an error nothing is sent, whatever response comes
\* with it.
C17_NoReplyOnError ==
    [][nJobs' = nJobs + 1 =>
          LET i == lastJob'.bot
          IN  sent'[i] = IF lastJob'.res # "nil" /\ lastJob'.err = "nil"
                            THEN sent[i] + 1
                            ELSE sent[i]]_vars

\* The positions of the commands of cmds that match msg.
MatchingAt(cmds, msg) == {p \in 1..Len(cmds) : msg \in cmds[p].match}

\* C18: the command a job executes is the first of the bot's commands, in
\* the order of their Append, that matches the input, also when later ones
\* match; the response is that command's; when no command matches there is
\* no command, no response and no error.
C18_FirstMatchInOrder ==
    nJobs > 0 =>
       LET cmds == commands[lastJob.bot]
           at == MatchingAt(cmds, lastJob.msg)
       IN  /\ at = {} => (lastJob.cmd = 0 /\ lastJob.res = "nil" /\ lastJob.err = "nil")
           /\ at # {} =>
                 \E p \in at : /\ \A q \in at : p <= q
                               /\ lastJob.cmd = cmds[p].id

\* A job found the second of three commands: the first does not match and
\* the third matches as well.
C18_Witness ==
    /\ nJobs > 0
    /\ Len(commands[lastJob.bot]) = 3
    /\ MatchingAt(commands[lastJob.bot], lastJob.msg) = {2, 3}
    /\ lastJob.cmd = commands[lastJob.bot][2].id
    /\ lastJob.res = "response"

\* The identifiers of a sequence of builders or commands, in order.
Ids(seq) == [p \in 1..Len(seq) |-> seq[p].id]
IsGood(b) == b.good

\* C20: once the commands of a bot are built, they are the commands of all
\* the stashed builders of its BotType whose build succeeds, in stash order,
\* a failing builder in between notwithstanding, and every builder whose
\* build fails has been reported.
C20_BuildPerEntry ==
    \A i \in 1..Len(botProperties) :
       adapterRun[i] >= 1 =>
          LET builders == stashedCommandBuilder[botProperties[i]]
          IN  /\ Ids(commands[i]) = Ids(SelectSeq(builders, IsGood))
              /\ \A p \in 1..Len(builders) :
                    ~builders[p].good =>
                       \E q \in 1..Len(buildErrs) : buildErrs[q] = builders[p].id

\* A bot was built from three builders of which the second fails.
C20_Witness ==
    /\ Len(botProperties) >= 1
    /\ adapterRun[1] = 1
    /\ Len(stashedCommandBuilder[botProperties[1]]) = 3
    /\ ~stashedCommandBuilder[botProperties[1]][2].good
    /\ Len(commands[1]) = 2
    /\ buildErrs = <<stashedCommandBuilder[botProperties[1]][2].id>>

(***************************************************************************)
(* A bot's Respond and its user context storage.  Respond calls run        *)
(* concurrently, one per worker.  A Respond call for an ordinary input     *)
(* looks up the sender's stored continuation, which is consumed (the slot  *)
(* cleared) in the same step; it then invokes the continuation, or the     *)
(* first matching command when there was none, and stores the continuation *)
(* the response carries.                                                   *)
(***************************************************************************)
\* Respond is called (dispatch d) with an input of sender s: an AbortInput
\* deletes the sender's continuation, a HelpInput leaves it alone, and both
\* return; any other input goes on to the lookup.
Respond(d, s, variant) ==
    /\ dpc[d] = "idle"
    /\ dsender' = [dsender EXCEPT ![d] = s]
    /\ dpc' = [dpc EXCEPT ![d] = IF variant = "input" THEN "lookup" ELSE "done"]
    /\ storage' = IF variant = "abort" THEN [storage EXCEPT ![s] = 0] ELSE storage
    /\ UNCHANGED <<nConts, dcont, ranBy>>
    /\ UNCHANGED <<poolVars, supervisorVars, adapterVars, registryVars, extVars>>

\* A faulty lookup: the continuation is read and left in its slot.
Respond_LookupKeepsSlot(d) ==
    /\ dpc[d] = "lookup"
    /\ dcont' = [dcont EXCEPT ![d] = storage[dsender[d]]]
    /\ dpc' = [dpc EXCEPT ![d] = "invoke"]
    /\ UNCHANGED <<storage, nConts, dsender, ranBy>>
    /\ UNCHANGED <<poolVars, supervisorVars, adapterVars, registryVars, extVars>>

\* The lookup of dispatch d: the sender's continuation, when there is one,
\* is taken out of its slot.
Respond_Lookup(d) ==
    /\ dpc[d] = "lookup"
    /\ dcont' = [dcont EXCEPT ![d] = storage[dsender[d]]]
    /\ storage' = [storage EXCEPT ![dsender[d]] = 0]
    /\ dpc' = [dpc EXCEPT ![d] = "invoke"]
    /\ UNCHANGED <<nConts, dsender, ranBy>>
    /\ UNCHANGED <<poolVars, supervisorVars, adapterVars, registryVars, extVars>>

\* Dispatch d invokes the continuation it found, or the first matching
\* command; when the response carries a continuation (next) it is stored
\* for the sender.
Respond_Invoke(d, next) ==
    /\ dpc[d] = "invoke"
    /\ ranBy' = IF dcont[d] # 0 THEN [ranBy EXCEPT ![dcont[d]] = @ \cup {d}] ELSE ranBy
    /\ IF next
          THEN /\ nConts < MaxConts
               /\ nConts' = nConts + 1
               /\ storage' = [storage EXCEPT ![dsender[d]] = nConts + 1]
          ELSE UNCHANGED <<nConts, storage>>
    /\ dpc' = [dpc EXCEPT ![d] = "done"]
    /\ dcont' = [dcont EXCEPT ![d] = 0]
    /\ UNCHANGED dsender
    /\ UNCHANGED <<poolVars, supervisorVars, adapterVars, registryVars, extVars>>

\* The storage evicts the entry of sender s (its time to live is over).
Evict(s) ==
    /\ storage[s] # 0
    /\ storage' = [storage EXCEPT ![s] = 0]
    /\ UNCHANGED <<nConts, dpc, dsender, dcont, ranBy>>
    /\ UNCHANGED <<poolVars, supervisorVars, adapterVars, registryVars, extVars>>

ContextNext ==
    \/ \E d \in Dispatches, s \in Senders, variant \in {"input", "abort", "help"} :
          Respond(d, s, variant)
    \/ \E d \in Dispatches : Respond_Lookup(d)
    \/ \E d \in Dispatches, next \in BOOLEAN : Respond_Invoke(d, next)
    \/ \E s \in Senders : Evict(s)

ContextSpec == Init /\ [][ContextNext]_vars

\* C19: a stored continuation is consumed by at most one dispatch: no
\* continuation is invoked by two dispatches, no two dispatches hold the
\* same continuation, a continuation a dispatch holds is no longer in the
\* storage, and the storage holds at most one continuation per sender.
C19_ContinuationConsumedOnce ==
    /\ \A c \in Conts : Cardinality(ranBy[c]) <= 1
    /\ \A d, e \in Dispatches :
          (d # e /\ dcont[d] # 0) => dcont[d] # dcont[e]
    /\ \A d \in Dispatches, s \in Senders :
          dcont[d] # 0 => storage[s] # dcont[d]
    /\ \A s \in Senders : storage[s] \in {0} \cup Conts

\* Two inputs of one sender were dispatched at the same time: one found the
\* stored continuation and ran it, the other found none.
C19_Witness ==
    \E d, e \in Dispatches :
       /\ d # e
       /\ dsender[d] = dsender[e]
       /\ ranBy[1] = {d}
       /\ dpc[e] = "invoke"
       /\ dcont[e] = 0
       /\ dpc[d] = "done"

(***************************************************************************)
(* task.go: ScheduledTaskBuilder and the tasks it builds.                  *)
(*                                                                         *)
(* builder.config is a pointer: the task a Build returns holds the very    *)
(* TaskConfig value the builder holds, and every later Build of the same   *)
(* builder reads the config file into that same value.  taskConfig is that *)
(* value.  The setters are called while the builder is being set up, that  *)
(* is before its first Build; every combination of fields is reachable.    *)
(***************************************************************************)
MaxBuilds == 2

BuilderSchedules == {"", "@daily"}
BuilderDestinations == {"nil", "#builder"}
ConfigDestinations == {"nil", "#config"}
ConfigValues == {"v1", "v2"}
ConfigDirs == {"", "config"}

\* The TaskConfig prototypes handed to ConfigurableFunc: a type may or may
\* not implement ScheduledConfig and DestinatedConfig.
Prototypes ==
    { c \in [hasSchedule : BOOLEAN, hasDest : BOOLEAN, schedule : {"", "@hourly"},
             dest : ConfigDestinations, value : {"v1"}] :
        /\ (~c.hasSchedule => c.schedule = "")
        /\ (~c.hasDest => c.dest = "nil") }

\* What a readable <identifier>.yaml holds.
FileContents ==
    [state : {"readable"}, schedule : {"", "@weekly"}, dest : ConfigDestinations, value : ConfigValues]
FileStates == {NoFile, [NoFile EXCEPT !.state = "unreadable"]} \cup FileContents

Identifier ==
    /\ nBuild = 0
    /\ ~builder.identifier
    /\ builder' = [builder EXCEPT !.identifier = TRUE]
    /\ UNCHANGED <<taskConfig, configFile, task, builtConfig, buildErr, buildDir, nBuild>>
    /\ UNCHANGED exceptTaskVars

Func ==
    /\ nBuild = 0
    /\ ~builder.taskFunc
    /\ builder' = [builder EXCEPT !.taskFunc = TRUE, !.config = FALSE]
    /\ taskConfig' = NoConfig
    /\ UNCHANGED <<configFile, task, builtConfig, buildErr, buildDir, nBuild>>
    /\ UNCHANGED exceptTaskVars

ConfigurableFunc(config) ==
    /\ nBuild = 0
    /\ ~builder.taskFunc
    /\ builder' = [builder EXCEPT !.taskFunc = TRUE, !.config = TRUE]
    /\ taskConfig' = config
    /\ UNCHANGED <<configFile, task, builtConfig, buildErr, buildDir, nBuild>>
    /\ UNCHANGED exceptTaskVars

Schedule(schedule) ==
    /\ nBuild = 0
    /\ builder.schedule # schedule
    /\ builder' = [builder EXCEPT !.schedule = schedule]
    /\ UNCHANGED <<taskConfig, configFile, task, builtConfig, buildErr, buildDir, nBuild>>
    /\ UNCHANGED exceptTaskVars

DefaultDestination(dest) ==
    /\ nBuild = 0
    /\ builder.defaultDestination # dest
    /\ builder' = [builder EXCEPT !.defaultDestination = dest]
    /\ UNCHANGED <<taskConfig, configFile, task, builtConfig, buildErr, buildDir, nBuild>>
    /\ UNCHANGED exceptTaskVars

\* The environment: the config file is created, rewritten, removed or made
\* unreadable between two calls of Build.
WriteConfigFile(f) ==
    /\ nBuild < MaxBuilds
    /\ f # configFile
    /\ configFile' = f
    /\ UNCHANGED <<builder, taskConfig, task, builtConfig, buildErr, buildDir, nBuild>>
    /\ UNCHANGED exceptTaskVars

\* readConfig(configPath, taskConfig): a missing file gives an error for
\* which os.IsNotExist holds and leaves the value as it was; an unreadable
\* file gives another error; a readable one populates the value in place.
readConfig(file, config) ==
    CASE file.state = "missing"    -> [err |-> "NotExist", config |-> config]
      [] file.state = "unreadable" -> [err |-> "ReadError", config |-> config]
      [] OTHER -> [err |-> "nil",
                   config |-> [config EXCEPT
                                 !.schedule = IF config.hasSchedule THEN file.schedule ELSE @,
                                 !.dest = IF config.hasDest THEN file.dest ELSE @,
                                 !.value = file.value]]

\* A Build that takes every error of readConfig as a failure.
Build_ReadFails_Any(err) == err # "nil"

\* Build: "if err != nil && os.IsNotExist(err) { log } else if err != nil { return nil, err }"
Build_ReadFails(err) == err # "nil" /\ err # "NotExist"

\* A Build that lets the schedule set on the builder win over the config's.
Build_schedule_BuilderFirst(b, config) ==
    IF b.schedule # ""
    THEN b.schedule
    ELSE IF b.config /\ config.hasSchedule THEN config.schedule ELSE ""

\* Build: the schedule of the task.
Build_schedule(b, config) ==
    IF b.config /\ config.hasSchedule /\ config.schedule # ""
    THEN config.schedule
    ELSE b.schedule

\* Build: the default destination of the task.
Build_defaultDestination(b, config) ==
    IF b.config /\ config.hasDest /\ config.dest # "nil"
    THEN config.dest
    ELSE b.defaultDestination

\* Build(configDir), as a function of the builder, the config value and the
\* file: the error returned, the task returned and the config value after.
BuildResult(b, config, file, configDir) ==
    IF ~b.identifier \/ ~b.taskFunc
    THEN [err |-> "ErrTaskInsufficientArgument", task |-> NoTask, config |-> config]
    ELSE LET read == IF configDir # "" /\ b.config
                     THEN readConfig(file, config)
                     ELSE [err |-> "nil", config |-> config]
             schedule == Build_schedule(b, read.config)
             dest == Build_defaultDestination(b, read.config)
         IN  IF Build_ReadFails(read.err)
             THEN [err |-> read.err, task |-> NoTask, config |-> read.config]
             ELSE IF schedule = ""
             THEN [err |-> "ErrTaskScheduleNotGiven", task |-> NoTask, config |-> read.config]
             ELSE [err |-> "nil",
                   task |-> [built |-> TRUE, schedule |-> schedule, defaultDestination |-> dest, config |-> b.config],
                   config |-> read.config]

\* A call of Build; its caller replaces the entry it holds when Build
\* succeeds and keeps the one it has when Build fails.
Build(configDir) ==
    /\ nBuild < MaxBuilds
    /\ LET r == BuildResult(builder, taskConfig, configFile, configDir)
       IN  /\ buildErr' = r.err
           /\ taskConfig' = r.config
           /\ task' = IF r.err = "nil" THEN r.task ELSE task
           /\ builtConfig' = IF r.err = "nil" THEN r.config ELSE builtConfig
    /\ buildDir' = configDir
    /\ nBuild' = nBuild + 1
    /\ UNCHANGED <<builder, configFile>>
    /\ UNCHANGED exceptTaskVars

\* scheduledTask.Execute: task.taskFunc(ctx, task.config); the configuration
\* it hands to the function is the value the entry points to.
Execute == IF task.built /\ task.config THEN taskConfig ELSE NoConfig

TaskNext ==
    \/ Identifier
    \/ Func
    \/ \E config \in Prototypes : ConfigurableFunc(config)
    \/ \E schedule \in BuilderSchedules : Schedule(schedule)
    \/ \E dest \in BuilderDestinations : DefaultDestination(dest)
    \/ \E f \in FileStates : WriteConfigFile(f)
    \/ \E configDir \in ConfigDirs : Build(configDir)

TaskSpec == Init /\ [][TaskNext]_vars

\* C21: after a Build that fails, the entry held from the earlier successful
\* Build of the same identifier is still there with its schedule and default
\* destination, and the configuration its next Execute uses is the one it
\* was built with.
C21_FailedRebuildKeepsEntry ==
    [][(nBuild' = nBuild + 1 /\ buildErr' # "nil" /\ task.built)
          => (task' = task /\ Execute' = builtConfig /\ builtConfig' = builtConfig)]_vars

\* A step is a call of Build.
BuildStep == nBuild' = nBuild + 1

\* The value of the config's Schedule() once Build has read the file: empty
\* when there is no config or its type does not implement ScheduledConfig.
ConfigSchedule(b, config) == IF b.config /\ config.hasSchedule THEN config.schedule ELSE ""

ConfigDestination(b, config) == IF b.config /\ config.hasDest THEN config.dest ELSE "nil"

\* C23: the default destination of a built task is the one set on the
\* builder whenever one was set; the config's DefaultDestination() is used
\* only when the builder has none.
C23_BuilderDestinationWins ==
    [][(BuildStep /\ buildErr' = "nil")
          => task'.defaultDestination =
                 (IF builder.defaultDestination # "nil"
                  THEN builder.defaultDestination
                  ELSE ConfigDestination(builder, taskConfig'))]_vars

\* C24: for a Build with a config struct and a config directory (identifier
\* and function set): when the directory holds no file for the identifier,
\* Build does not fail on that account (it succeeds whenever a schedule is
\* there) and the config's values are untouched; when the file is there but
\* cannot be read, Build returns that error and no task; when it is there and
\* readable, the config holds the file's values and the schedule and
\* destination of the task are derived from them.
C24_ConfigFileHandling ==
    [][(BuildStep /\ builder.identifier /\ builder.taskFunc /\ builder.config /\ buildDir' # "")
          => /\ (configFile.state = "missing")
                   => /\ taskConfig' = taskConfig
                      /\ buildErr' \in {"nil", "ErrTaskScheduleNotGiven"}
                      /\ (builder.schedule # "" \/ ConfigSchedule(builder, taskConfig) # "")
                            => (buildErr' = "nil" /\ task'.built)
             /\ (configFile.state = "unreadable")
                   => (buildErr' = "ReadError" /\ task' = task)
             /\ (configFile.state = "readable")
                   => /\ taskConfig'.value = configFile.value
                      /\ taskConfig.hasSchedule => taskConfig'.schedule = configFile.schedule
                      /\ taskConfig.hasDest => taskConfig'.dest = configFile.dest
                      /\ (buildErr' = "nil")
                            => /\ (taskConfig.hasSchedule /\ configFile.schedule # "")
                                     => task'.schedule = configFile.schedule
                               /\ (taskConfig.hasDest /\ configFile.dest # "nil")
                                     => task'.defaultDestination = configFile.dest]_vars

\* C24: a Build with a config struct and a config directory succeeded
\* although the directory holds no file for the identifier.
C24_Witness ==
    /\ buildErr = "nil" /\ task.built
    /\ buildDir = "config"
    /\ builder.config
    /\ configFile.state = "missing"

(***************************************************************************)
(* The scheduler: executeScheduledTask(ctx, bot, task), run on each firing *)
(* of a task's schedule.  It calls task.Execute and, for each result it    *)
(* returns, sends the content to the result's destination, or to the       *)
(* task's default destination when the result has none, or drops the       *)
(* result when there is neither.  An error of Execute is logged.           *)
(***************************************************************************)
MaxFirings == 2
MaxResults == 2

ResultDestinations == {"nil", "#dummyDestination"}
DefaultDestinations == {"nil", "#defaultDestination"}
TaskResults ==
    UNION { [1..n -> [content : {"dummy content"}, destination : ResultDestinations]] : n \in 0..MaxResults }

\* The schedule of a task fires: the scheduler runs executeScheduledTask on it.
Fire(results, err, dest) ==
    /\ cronRunning
    /\ epc \in {"idle", "done"}
    /\ nFired < MaxFirings
    /\ nFired' = nFired + 1
    /\ firing' = [results |-> results, err |-> err, defaultDestination |-> dest]
    /\ epc' = "executing"
    /\ eidx' = 1
    /\ sendMessages' = <<>>
    /\ UNCHANGED cronRunning
    /\ UNCHANGED exceptSchedVars

\* results, err := task.Execute(ctx); an error is logged and nothing is sent.
executeScheduledTask_Execute ==
    /\ epc = "executing"
    /\ epc' = IF firing.err THEN "done" ELSE "results"
    /\ UNCHANGED <<firing, eidx, sendMessages, cronRunning, nFired>>
    /\ UNCHANGED exceptSchedVars

\* The destination of a result: result destination > task default > none.
Destination(res, defaultDestination) ==
    IF res.destination # "nil" THEN res.destination ELSE defaultDestination

\* An executeScheduledTask that returns at the first result it has no
\* destination for.
executeScheduledTask_ResultOrReturn ==
    /\ epc = "results"
    /\ eidx <= Len(firing.results)
    /\ LET res == firing.results[eidx]
           dest == Destination(res, firing.defaultDestination)
       IN  IF dest = "nil"
           THEN /\ epc' = "done"
                /\ UNCHANGED <<sendMessages, eidx>>
           ELSE /\ sendMessages' = Append(sendMessages,
                                          [destination |-> dest, content |-> res.content, result |-> eidx])
                /\ eidx' = eidx + 1
                /\ UNCHANGED epc
    /\ UNCHANGED <<firing, cronRunning, nFired>>
    /\ UNCHANGED exceptSchedVars

\* One result: bot.SendMessage with its destination, or a log when it has none.
executeScheduledTask_Result ==
    /\ epc = "results"
    /\ eidx <= Len(firing.results)
    /\ LET res == firing.results[eidx]
           dest == Destination(res, firing.defaultDestination)
       IN  sendMessages' = IF dest = "nil"
                           THEN sendMessages
                           ELSE Append(sendMessages,
                                       [destination |-> dest, content |-> res.content, result |-> eidx])
    /\ eidx' = eidx + 1
    /\ UNCHANGED <<firing, epc, cronRunning, nFired>>
    /\ UNCHANGED exceptSchedVars

executeScheduledTask_Return ==
    /\ epc = "results"
    /\ eidx > Len(firing.results)
    /\ epc' = "done"
    /\ UNCHANGED <<firing, eidx, sendMessages, cronRunning, nFired>>
    /\ UNCHANGED exceptSchedVars

SchedulerNext ==
    \/ \E results \in TaskResults, err \in BOOLEAN, dest \in DefaultDestinations : Fire(results, err, dest)
    \/ executeScheduledTask_Execute
    \/ executeScheduledTask_Result
    \/ executeScheduledTask_Return

SchedulerSpec == Init /\ [][SchedulerNext]_vars

\* The results of a firing that have a destination of their own or a default.
Deliverable(f) ==
    { i \in 1..Len(f.results) :
        f.results[i].destination # "nil" \/ f.defaultDestination # "nil" }

\* C25: when executeScheduledTask is done, bot.SendMessage has been called
\* exactly once for each result that has a destination of its own or a task
\* default, with the result's destination when it has one and the default
\* otherwise; results with neither were dropped; when Execute returned an
\* error nothing was sent; and the scheduler is still running.
C25_SendPerDeliverableResult ==
    /\ cronRunning
    /\ (epc = "done")
          => IF firing.err
             THEN sendMessages = <<>>
             ELSE /\ \A i \in Deliverable(firing) :
                        Cardinality({ k \in 1..Len(sendMessages) : sendMessages[k].result = i }) = 1
                  /\ \A k \in 1..Len(sendMessages) :
                        LET m == sendMessages[k]
                            res == firing.results[m.result]
                        IN  /\ m.result \in Deliverable(firing)
                            /\ m.content = res.content
                            /\ m.destination = IF res.destination # "nil"
                                               THEN res.destination
                                               ELSE firing.defaultDestination

\* C25: a firing returned two results and the task has no default
\* destination: the first result, with no destination, was dropped and the
\* second was sent to its own.
C25_Witness ==
    /\ epc = "done" /\ ~firing.err
    /\ Len(firing.results) = 2
    /\ firing.defaultDestination = "nil"
    /\ firing.results[1].destination = "nil"
    /\ Len(sendMessages) = 1
    /\ sendMessages[1].result = 2

(***************************************************************************)
(* retry.Retry(trial, fn): call fn; when it returns an error try again, up *)
(* to trial calls in all; return nil at the first success and the          *)
(* aggregated per-attempt errors when every call failed.                   *)
(***************************************************************************)
MaxTrial == 4
MaxRetryCalls == 2

Trials == 1..MaxTrial
AttemptErrors == {"error A", "error B"}

Retry_Call(n) ==
    /\ retryPc \in {"idle", "returned"}
    /\ nRetry < MaxRetryCalls
    /\ nRetry' = nRetry + 1
    /\ trial' = n
    /\ attempts' = <<>>
    /\ retryErr' = [nil |-> TRUE, Errors |-> <<>>]
    /\ retryPc' = "running"
    /\ UNCHANGED exceptRetryVars

\* A Retry that allows one call more than trial.
Retry_Exhausted_OneMore(failed, n) == failed >= n

\* After a failed call, `failed` calls having failed before it, no further
\* call is made.
Retry_Exhausted(failed, n) == failed + 1 >= n

\* One call of the target function, returning nil or an error.
Retry_Attempt(err) ==
    /\ retryPc = "running"
    /\ attempts' = Append(attempts, err)
    /\ IF err = "nil"
          THEN /\ retryPc' = "returned"
               /\ retryErr' = [nil |-> TRUE, Errors |-> <<>>]
          ELSE IF Retry_Exhausted(Len(attempts), trial)
                  THEN /\ retryPc' = "returned"
                       /\ retryErr' = [nil |-> FALSE, Errors |-> attempts']
                  ELSE UNCHANGED <<retryPc, retryErr>>
    /\ UNCHANGED <<trial, nRetry>>
    /\ UNCHANGED exceptRetryVars

RetryNext ==
    \/ \E n \in Trials : Retry_Call(n)
    \/ \E err \in {"nil"} \cup AttemptErrors : Retry_Attempt(err)

RetrySpec == Init /\ [][RetryNext]_vars

\* C26: Retry never calls the function more than trial times nor after a
\* success.  When it has returned: if every attempt failed, the function was
\* called exactly trial times and the aggregated error holds exactly those
\* trial errors in attempt order; otherwise it returned nil and its last
\* call is the only one that succeeded (one call when the first succeeds).
C26_RetryCallsAndErrors ==
    /\ Len(attempts) <= trial
    /\ \A i \in 1..Len(attempts) : attempts[i] = "nil" => i = Len(attempts)
    /\ (retryPc = "returned")
          => IF \A i \in 1..Len(attempts) : attempts[i] # "nil"
             THEN /\ Len(attempts) = trial
                  /\ ~retryErr.nil
                  /\ retryErr.Errors = attempts
             ELSE /\ retryErr.nil
                  /\ attempts[Len(attempts)] = "nil"
    /\ (retryPc = "running") => Len(attempts) < trial

\* C26: a Retry with trial = 3 has returned after three failing attempts.
C26_Witness ==
    /\ retryPc = "returned"
    /\ trial = 3
    /\ Len(attempts) = 3
    /\ Len(retryErr.Errors) = 3
    /\ retryErr.Errors[1] # retryErr.Errors[3]

(***************************************************************************)
(* dirWatcher: receiveEvent, the loop that owns the subscriptions, and     *)
(* watch, called by a bot to subscribe a callback to a directory.  watch   *)
(* hands its watchingDir to the loop over the unbuffered watchDir channel, *)
(* waits for the answer on initErr, and on success starts a goroutine that *)
(* sends the bot type on the cancel channel once the bot's context is      *)
(* done.  The order in which the loop ranges over the subscription map is  *)
(* not defined: it is any order of the map's keys.                         *)
(***************************************************************************)
MaxWatches == 2

EventOps == {"Write", "Create", "Remove"}
EventNames == {"a.yaml"}

\* watch: the watchingDir is built and offered on dw.watchDir.
watch(bt, dir) ==
    /\ Len(calls) < MaxWatches
    /\ calls' = Append(calls, [botType |-> bt, dir |-> dir, pc |-> "offered"])
    /\ UNCHANGED <<subscription, fsWatched, dwRunning, dwCtxDone, botCtxDone, lastEvent, invoked>>
    /\ UNCHANGED exceptDirVars

\* receiveEvent, case w := <-dw.watchDir.  addOk is whether watcher.Add
\* succeeds.
receiveEvent_WatchDir(w, addOk) ==
    /\ dwRunning
    /\ calls[w].pc = "offered"
    /\ IF addOk
          THEN /\ fsWatched' = fsWatched \cup {calls[w].dir}
               /\ subscription' = [subscription EXCEPT ![calls[w].dir] = Append(@, w)]
               /\ calls' = [calls EXCEPT ![w].pc = "initOk"]
          ELSE /\ calls' = [calls EXCEPT ![w].pc = "initErr"]
               /\ UNCHANGED <<fsWatched, subscription>>
    /\ UNCHANGED <<dwRunning, dwCtxDone, botCtxDone, lastEvent, invoked>>
    /\ UNCHANGED exceptDirVars

\* watch: err = <-watchingDir.initErr; on nil the goroutine that waits for
\* botCtx.Done() is started and watch returns nil, else it returns err.
watch_Return(w) ==
    /\ calls[w].pc \in {"initOk", "initErr"}
    /\ calls' = [calls EXCEPT ![w].pc = IF @ = "initOk" THEN "watching" ELSE "failed"]
    /\ UNCHANGED <<subscription, fsWatched, dwRunning, dwCtxDone, botCtxDone, lastEvent, invoked>>
    /\ UNCHANGED exceptDirVars

\* The context of a bot is cancelled.
CancelBotCtx(bt) ==
    /\ bt \notin botCtxDone
    /\ botCtxDone' = botCtxDone \cup {bt}
    /\ UNCHANGED <<subscription, fsWatched, dwRunning, dwCtxDone, calls, lastEvent, invoked>>
    /\ UNCHANGED exceptDirVars

\* The root context is cancelled: the context of the watcher loop and, being
\* derived from it, the context of every bot are done.
CancelRootCtx ==
    /\ ~dwCtxDone
    /\ dwCtxDone' = TRUE
    /\ botCtxDone' = Bots
    /\ UNCHANGED <<subscription, fsWatched, dwRunning, calls, lastEvent, invoked>>
    /\ UNCHANGED exceptDirVars

\* A cancel case that keeps no watch of the directory.
remains_None(watches, bt) == <<>>

\* receiveEvent, cancel case: the watches of a directory that are not tied
\* to the given bot type.
remains(watches, bt) == SelectSeq(watches, LAMBDA w : calls[w].botType # bt)

\* The keys of the subscription map, and the orders a range may take them in.
Keys(sub) == { d \in WatchedDirs : sub[d] # <<>> }
Orders(S) == { o \in [1..Cardinality(S) -> S] : \A i, j \in 1..Cardinality(S) : o[i] = o[j] => i = j }

\* receiveEvent, cancel case: the range over the subscription map from the
\* i-th key of the order on.  A directory left with no watch is removed from
\* the watcher and from the map, and the range ends there (break).
RECURSIVE cancelRange(_, _, _, _)
cancelRange(st, order, i, bt) ==
    IF i > Len(order)
    THEN st
    ELSE LET dir == order[i]
             rem == remains(st.subscription[dir], bt)
         IN  IF Len(rem) = 0
             THEN [subscription |-> [st.subscription EXCEPT ![dir] = <<>>],
                   fsWatched |-> st.fsWatched \ {dir}]
             ELSE cancelRange([st EXCEPT !.subscription[dir] = rem], order, i + 1, bt)

\* receiveEvent, case botType := <-dw.cancel: the goroutine started by the
\* watch call w, its bot's context being done, hands over the bot type.
receiveEvent_Cancel(w, order) ==
    /\ dwRunning
    /\ calls[w].pc = "watching"
    /\ calls[w].botType \in botCtxDone
    /\ LET st == cancelRange([subscription |-> subscription, fsWatched |-> fsWatched],
                             order, 1, calls[w].botType)
       IN  /\ subscription' = st.subscription
           /\ fsWatched' = st.fsWatched
    /\ calls' = [calls EXCEPT ![w].pc = "cancelSent"]
    /\ UNCHANGED <<dwRunning, dwCtxDone, botCtxDone, lastEvent, invoked>>
    /\ UNCHANGED exceptDirVars

\* A loop that calls the callbacks on an event of any kind.
callbacks_AnyOp(op, dir, name, sub) ==
    [i \in 1..Len(sub[dir]) |-> [watch |-> sub[dir][i], name |-> name]]

\* receiveEvent, event case: the callbacks called, in order, each with
\* event.Name.
callbacks(op, dir, name, sub) ==
    IF op \in {"Write", "Create"}
    THEN [i \in 1..Len(sub[dir]) |-> [watch |-> sub[dir][i], name |-> name]]
    ELSE <<>>

\* receiveEvent, case event := <-events, for the file `name` in `dir`.
receiveEvent_Event(op, dir, name) ==
    /\ dwRunning
    /\ lastEvent' = [op |-> op, dir |-> dir, name |-> name]
    /\ invoked' = callbacks(op, dir, name, subscription)
    /\ UNCHANGED <<subscription, fsWatched, dwRunning, dwCtxDone, calls, botCtxDone>>
    /\ UNCHANGED exceptDirVars

\* receiveEvent, case err := <-errors: the error is logged.
receiveEvent_Error ==
    /\ dwRunning
    /\ lastEvent' = [op |-> "error", dir |-> "none", name |-> "none"]
    /\ invoked' = <<>>
    /\ UNCHANGED <<subscription, fsWatched, dwRunning, dwCtxDone, calls, botCtxDone>>
    /\ UNCHANGED exceptDirVars

\* receiveEvent, case <-ctx.Done(): the watcher is closed and the loop ends.
receiveEvent_Done ==
    /\ dwRunning
    /\ dwCtxDone
    /\ dwRunning' = FALSE
    /\ fsWatched' = {}
    /\ UNCHANGED <<subscription, dwCtxDone, calls, botCtxDone, lastEvent, invoked>>
    /\ UNCHANGED exceptDirVars

WatcherNext ==
    \/ \E b \in Bots, d \in WatchedDirs : watch(b, d)
    \/ \E w \in 1..Len(calls), addOk \in BOOLEAN : receiveEvent_WatchDir(w, addOk)
    \/ \E w \in 1..Len(calls) : watch_Return(w)
    \/ \E b \in Bots : CancelBotCtx(b)
    \/ CancelRootCtx
    \/ \E w \in 1..Len(calls), order \in Orders(Keys(subscription)) : receiveEvent_Cancel(w, order)
    \/ \E op \in EventOps, d \in WatchedDirs, name \in EventNames : receiveEvent_Event(op, d, name)
    \/ receiveEvent_Error
    \/ receiveEvent_Done

WatcherSpec == Init /\ [][WatcherNext]_vars

\* Scheduling.  The loop is a goroutine of its own and keeps selecting: a
\* case that stays ready is taken, so an offered watchingDir is received, a
\* waiting cancel goroutine is served and a done context is seen.  A watch
\* call whose answer is on initErr goes on.  Nothing obliges the environment
\* to call watch, to cancel a context or to produce file events.
WatcherFairness ==
    /\ \A w \in 1..MaxWatches :
          /\ WF_dirVars(w <= Len(calls) /\ \E addOk \in BOOLEAN : receiveEvent_WatchDir(w, addOk))
          /\ WF_dirVars(w <= Len(calls) /\ watch_Return(w))
          /\ WF_dirVars(w <= Len(calls)
                          /\ \E order \in Orders(Keys(subscription)) : receiveEvent_Cancel(w, order))
    /\ WF_dirVars(receiveEvent_Done)

WatcherFairSpec == WatcherSpec /\ WatcherFairness

\* The watches of bot type b that directory d holds.
WatchesOf(sub, d, b) == { i \in 1..Len(sub[d]) : calls[sub[d][i]].botType = b }

\* A step in which the loop handles a cancel request for bot type b.
CancelStep(b) ==
    \E w \in 1..Len(calls) :
        /\ calls[w].botType = b
        /\ calls[w].pc = "watching"
        /\ calls'[w].pc = "cancelSent"

\* C27: when the loop has handled one cancel request for bot type X, no
\* directory holds a subscription of X and every directory without
\* subscribers is off the filesystem watcher; and an event that arrives
\* while no directory holds a subscription of X invokes no callback of X.
C27_CancelReleasesAll ==
    [][\A b \in Bots :
          /\ CancelStep(b)
                => \A d \in WatchedDirs :
                      /\ WatchesOf(subscription', d, b) = {}
                      /\ (subscription'[d] = <<>> => d \notin fsWatched')
          /\ (lastEvent' # lastEvent /\ \A d \in WatchedDirs : WatchesOf(subscription, d, b) = {})
                => \A k \in 1..Len(invoked') : calls[invoked'[k].watch].botType # b]_vars

\* The watches of a directory that are tied to bot type b, in order.
SubscriptionsOf(sub, d, b) == SelectSeq(sub[d], LAMBDA w : calls[w].botType = b)

\* C28: when the loop handles a cancel request for bot type X, the
\* subscriptions of every other bot type Y are the same after as before and
\* a directory Y subscribes to stays on the filesystem watcher; and a Write
\* or Create event that arrives after a cancel request of X was handled
\* still invokes every callback Y has in its directory.
C28_CancelLeavesOthers ==
    [][\A x \in Bots : \A y \in Bots \ {x} :
          /\ CancelStep(x)
                => \A d \in WatchedDirs :
                      /\ SubscriptionsOf(subscription', d, y) = SubscriptionsOf(subscription, d, y)
                      /\ (SubscriptionsOf(subscription, d, y) # <<>> /\ d \in fsWatched)
                            => d \in fsWatched'
          /\ (/\ lastEvent' # lastEvent
              /\ lastEvent'.op \in {"Write", "Create"}
              /\ \E w \in 1..Len(calls) : calls[w].botType = x /\ calls[w].pc = "cancelSent")
                => \A i \in 1..Len(SubscriptionsOf(subscription, lastEvent'.dir, y)) :
                      \E k \in 1..Len(invoked') :
                          invoked'[k].watch = SubscriptionsOf(subscription, lastEvent'.dir, y)[i]]_vars

\* C28: the cancel request of one bot type was handled for a directory that
\* another bot type subscribes to as well; the directory is still watched,
\* holds the other's subscription alone, and an event invoked its callback.
C28_Witness ==
    \E w1, w2 \in 1..Len(calls) :
        /\ calls[w1].pc = "cancelSent"
        /\ calls[w2].botType # calls[w1].botType
        /\ calls[w2].dir = calls[w1].dir
        /\ subscription[calls[w2].dir] = <<w2>>
        /\ calls[w2].dir \in fsWatched
        /\ lastEvent.op = "Write" /\ lastEvent.dir = calls[w2].dir
        /\ Len(invoked) = 1 /\ invoked[1].watch = w2

\* What a watch call got from initErr: nil, the error of watcher.Add, or
\* nothing yet.
initErr(w) ==
    CASE calls[w].pc \in {"initOk", "watching", "cancelSent"} -> "nil"
      [] calls[w].pc \in {"initErr", "failed"} -> "watcher.Add error"
      [] OTHER -> "none"

\* C29: when the loop answers a watch call for a bot type and directory that
\* already hold a subscription, the answer is an error (ErrAlreadySubscribing,
\* unless watcher.Add failed first) and the subscriptions stay as they are;
\* and no event invokes two callbacks of the same bot type for the same
\* directory.
C29_DuplicateRejected ==
    [][/\ \A w \in 1..Len(calls) :
            (/\ calls[w].pc = "offered"
             /\ calls'[w].pc # "offered"
             /\ WatchesOf(subscription, calls[w].dir, calls[w].botType) # {})
               => (initErr(w)' # "nil" /\ subscription' = subscription)
       /\ \A k1, k2 \in 1..Len(invoked') :
            (k1 # k2) => calls[invoked'[k1].watch].botType # calls[invoked'[k2].watch].botType]_vars

\* A step in which the loop takes an event or an error.
EventStep == lastEvent' # lastEvent \/ invoked' # invoked

\* C30: a Write or Create event for a file in a directory invokes exactly
\* the callbacks subscribed for that directory at that time, once each, with
\* the file's name (none when the directory has no subscription); an event
\* of another kind and an error of the watcher invoke none, and after an
\* error the loop is still running.
C30_EventInvokesSubscribers ==
    [][EventStep
          => IF lastEvent'.op \in {"Write", "Create"}
             THEN LET watches == subscription[lastEvent'.dir]
                  IN  /\ \A i \in 1..Len(watches) :
                            Cardinality({ k \in 1..Len(invoked') : invoked'[k].watch = watches[i] }) = 1
                      /\ \A k \in 1..Len(invoked') :
                            /\ \E i \in 1..Len(watches) : watches[i] = invoked'[k].watch
                            /\ invoked'[k].name = lastEvent'.name
             ELSE /\ invoked' = <<>>
                  /\ (lastEvent'.op = "error") => (dwRunning' /\ subscription' = subscription)]_vars

\* C30: a Create event in a directory with two subscriptions invoked both
\* callbacks.
C30_Witness ==
    /\ lastEvent.op = "Create"
    /\ Len(invoked) = 2
    /\ invoked[1].watch # invoked[2].watch
    /\ invoked[1].name = lastEvent.name
    /\ subscription[lastEvent.dir] = <<invoked[1].watch, invoked[2].watch>>

\* The goroutine that watch call w started is still waiting: for the bot's
\* context to be done, or for the loop to take its send on dw.cancel.
Forwarding(w) == w <= Len(calls) /\ calls[w].pc = "watching"

\* C31: once the root context is cancelled, every goroutine started by watch
\* to forward the cancellation eventually terminates.  The root context
\* stays cancelled and a terminated goroutine stays terminated, so this is:
\* again and again, the root context is live or no such goroutine is waiting.
C31_ForwardersTerminate ==
    []<>(~dwCtxDone \/ \A w \in 1..MaxWatches : ~Forwarding(w))

\* Where watch call w stands; "none" while it has not been made.
callPc(w) == IF w <= Len(calls) THEN calls[w].pc ELSE "none"

\* watch call w, if made when the loop has stopped, does not stay on its
\* send to dw.watchDir.
LateWatchReturns(w) ==
    []((~dwRunning /\ callPc(w) = "none") => []<>(callPc(w) # "offered"))

\* C32: a watch request made after the watcher's context was cancelled and
\* its loop stopped returns to its caller (with an error) instead of
\* blocking for ever.  And
\* a watch whose Add failed returns the error, registers no subscription and
\* starts no cancellation goroutine: the call is in no subscription list and
\* goes from the failed Add to "failed" and stays there, never "watching".
C32_WatchReturnsError ==
    /\ [](\A w \in 1..Len(calls) :
            calls[w].pc \in {"initErr", "failed"}
               => \A d \in WatchedDirs : \A i \in 1..Len(subscription[d]) : subscription[d][i] # w)
    /\ [][\A w \in 1..Len(calls) :
            /\ calls[w].pc = "initErr" => calls'[w].pc \in {"initErr", "failed"}
            /\ calls[w].pc = "failed" => calls'[w].pc = "failed"]_vars
    /\ \A w \in 1..MaxWatches : LateWatchReturns(w)

(***************************************************************************)
(* Claims about the Slack adapter's connection and the adapters' receive   *)
(* loops.                                                                  *)
(***************************************************************************)

\* Run is connecting: within connect, at one of its two retried calls.
SlackConnecting == botType = "slack" /\ sPc \in {"startRTM", "connectRTM"}

\* The ping that a connection error of Receive requested is sent on the
\* current connection and fails, the context being live.
ReceivePingFails ==
    /\ botType = "slack"
    /\ ~ctxDone
    /\ sPc = "supervise"
    /\ tryPing[sConn] = "receive"
    /\ tryPing'[sConn] = "none"
    /\ lastSupervise'.ping = "failed"

\* C33: when Receive fails with a connection error and the ping it requests
\* fails too, the context being live, Run closes that connection, cancels
\* its context and connects again, without a call of notifyErr; connecting
\* ends, either with a new connection that is received from and supervised
\* and with no call of notifyErr, or with the retries used up, which alone
\* is notified.
C33_ReconnectAfterPingFailure ==
    /\ [][ReceivePingFails =>
             /\ sClosed'[sConn] = sClosed[sConn] + 1
             /\ sConnDone'[sConn]
             /\ sPc' = "startRTM"
             /\ notifyErrs' = notifyErrs]_vars
    /\ [][(SlackConnecting /\ sPc' \notin {"startRTM", "connectRTM"}) =>
             \/ /\ sPc' = "supervise"
                /\ sConn' = sConn + 1
                /\ sRecv'[sConn'] = "select"
                /\ sClosed'[sConn'] = 0
                /\ notifyErrs' = notifyErrs
             \/ /\ sPc' = "returned"
                /\ sTrial' = RetryTrial
                /\ notifyErrs' = Append(notifyErrs, "NonContinuable")]_vars
    /\ [][(botType = "slack" /\ notifyErrs' # notifyErrs) => SlackConnecting /\ sPc' = "returned"]_vars
    /\ []<>(~SlackConnecting)

\* The ping requested after a connection error of Receive failed on the
\* first connection; the second connection is established and supervised,
\* the context is live and nothing was notified.
C33_Witness ==
    /\ botType = "slack"
    /\ ~ctxDone
    /\ lastSupervise = [send |-> "none", ping |-> "failed", by |-> "receive"]
    /\ sConn = 2
    /\ sPc = "supervise"
    /\ sClosed[1] = 1
    /\ sConnDone[1]
    /\ notifyErrs = <<>>

\* Every connection attempt made while the context was live succeeded, and
\* the context was cancelled, if at all, after Run had a connection.
CancelledWhileServing ==
    [](/\ (botType = "slack" /\ ~ctxDone) => sTrial = 0
       /\ ctxDone => sConn >= 1)

\* C34: cancelling the context of the Slack Run is never reported as a fatal
\* error: when every connection attempt made before the cancellation
\* succeeded, Run never calls notifyErr and returns once the context is
\* cancelled, however the cancellation falls between the ping signals and
\* the ping failures.
C34_CancelNotFatal ==
    CancelledWhileServing =>
        /\ [](botType = "slack" => notifyErrs = <<>>)
        /\ (botType = "slack" /\ ctxDone) ~> (sPc = "returned")

\* superviseConnection takes a message from the queue.
MessageTaken == botType = "slack" /\ messageQueue' < messageQueue

\* C35: superviseConnection returns nil only when the connection's context
\* is done, and an error only when a ping failed: the ping a tryPing signal
\* asked for or the one that follows a failed Send.  A failed Send whose
\* ping succeeds leaves the supervision running and the connection open.
\* Each message taken from the queue is taken alone, is passed to Send once
\* and is not put back, and Send is called for nothing else.
C35_SuperviseReturns ==
    /\ [][(botType = "slack" /\ sPc = "supervise" /\ sPc' = "returned")
             => ConnCtxDone(sConn)]_vars
    /\ [][(botType = "slack" /\ sPc = "supervise" /\ sPc' = "startRTM") =>
             /\ lastSupervise'.ping = "failed"
             /\ \/ tryPing[sConn] # "none" /\ tryPing'[sConn] = "none" /\ lastSupervise'.send = "none"
                \/ MessageTaken /\ lastSupervise'.send = "failed"]_vars
    /\ [][(MessageTaken /\ lastSupervise'.send = "failed" /\ lastSupervise'.ping = "ok") =>
             /\ sPc' = "supervise"
             /\ UNCHANGED <<sConn, sClosed, sConnDone>>]_vars
    /\ [][MessageTaken =>
             /\ sPc = "supervise"
             /\ messageQueue' = messageQueue - 1
             /\ lastSupervise'.send \in {"ok", "failed"}
             /\ lastSupervise'.send = "ok" => lastSupervise'.ping = "none" /\ sPc' = "supervise"]_vars
    /\ [][(lastSupervise' # lastSupervise /\ lastSupervise'.send # "none") => MessageTaken]_vars

\* A Send failed, the ping that followed succeeded, and the first connection
\* is still the supervised one, open, with its context live.
C35_Witness ==
    /\ botType = "slack"
    /\ lastSupervise = [send |-> "failed", ping |-> "ok", by |-> "send"]
    /\ sPc = "supervise"
    /\ sConn = 1
    /\ sClosed[1] = 0
    /\ ~ConnCtxDone(1)

\* receivePayload of connection k gets the result of a Receive call.
Received(k) == botType = "slack" /\ sRecv[k] = "receive" /\ sRecv'[k] = "select"

LiveConns == {k \in 1..sConn : sClosed[k] = 0}

\* C38: the Slack Run holds at most one live connection.  While it connects
\* or has returned, every connection it established is closed; while it
\* supervises, the supervised connection is the only open one; Close is
\* never called twice on a connection nor on one not established.  A new
\* connection is established only by a connect that began with none open,
\* and messages leave the queue only in the one supervision of the current
\* connection.
C38_OneLiveConnection ==
    /\ [](botType = "slack" =>
            /\ Cardinality(LiveConns) <= 1
            /\ \A k \in Conns : sClosed[k] <= 1 /\ (k > sConn => sClosed[k] = 0)
            /\ sPc = "supervise" => LiveConns = {sConn}
            /\ sPc \in {"startRTM", "connectRTM", "returned"} => LiveConns = {})
    /\ [][(botType = "slack" /\ sConn' # sConn) =>
             /\ sConn' = sConn + 1
             /\ sPc = "connectRTM"
             /\ LiveConns = {}]_vars
    /\ [][MessageTaken => sPc = "supervise" /\ LiveConns = {sConn}]_vars

\* The second connection is the supervised one and the first was closed.
C38_Witness ==
    /\ botType = "slack"
    /\ sPc = "supervise"
    /\ sConn = 2
    /\ sClosed = <<1, 0>>
    /\ LiveConns = {2}

\* C39: receiveMessageRecursive calls enqueueInput once for a Receive that
\* returned a message, within the same turn of its loop and so in the order
\* of reception, and not at all for an empty or malformed payload, which
\* leaves the loop running and the connection open.  The loop ends only
\* with another error of Receive; runEachRoom then closes the connection
\* and goes to its select, from where it returns when the context is done
\* and connects again otherwise, which it eventually does.
C39_ReceiveMessageRecursive ==
    /\ [](botType = "gitter" =>
            /\ lastReceive.handled = 1
                  <=> (lastReceive.payload = "message" /\ lastReceive.err = "nil")
            /\ lastReceive.handled \in {0, 1})
    /\ [][(botType = "gitter" /\ lastReceive'.err \in {"nil", "ErrEmptyPayload", "MalformedPayloadError"})
             => UNCHANGED <<room, roomConn, roomClosed>> \/ lastReceive' = lastReceive]_vars
    /\ [][\A r \in Rooms :
            (botType = "gitter" /\ room[r] = "receiving" /\ room'[r] # "receiving") =>
                /\ lastReceive' = [payload |-> "nil", err |-> "other", handled |-> 0]
                /\ roomClosed'[r] = roomClosed[r] + 1
                /\ room'[r] = "select"]_vars
    /\ [][\A r \in Rooms :
            (botType = "gitter" /\ room[r] = "select" /\ room'[r] # "select") =>
                room'[r] = IF ctxDone THEN "returned" ELSE "connecting"]_vars
    /\ []<>(\A r \in Rooms : room[r] # "select")

\* Room room1 is on its second connection, the first one closed after an
\* error of Receive, and the last Receive returned a message, which was
\* enqueued; the context is live.
C39_Witness ==
    /\ botType = "gitter"
    /\ ~ctxDone
    /\ room["room1"] = "receiving"
    /\ roomConn["room1"] = 2
    /\ roomClosed["room1"] = 1
    /\ lastReceive = [payload |-> "message", err |-> "nil", handled |-> 1]

(***************************************************************************)
(* slack.handlePayload.  A text is a sequence of characters; the payloads  *)
(* are the decoded RTM payloads by type, a Message carrying its text.      *)
(***************************************************************************)
\* Longest text of a message.
MaxText == 2

\* The texts: of blanks and two letters.
Texts == UNION {[1..n -> {" ", "h", "a"}] : n \in 0..MaxText}

\* Config.HelpCommand and Config.AbortCommand: unset, or a word.
PayloadConfigs ==
    [HelpCommand : {<<>>, <<"h">>, <<"a">>}, AbortCommand : {<<>>, <<"h">>, <<"a">>}]

Payloads ==
    [type : {"Message"}, text : Texts]
       \cup [type : {"WebSocketOKReply", "WebSocketNGReply", "Pong", "PinAdded"}, text : {<<>>}]

\* strings.TrimSpace: the text without its leading and trailing white space.
RECURSIVE TrimSpace(_)
TrimSpace(text) ==
    IF text = <<>> THEN <<>>
    ELSE IF Head(text) = " " THEN TrimSpace(Tail(text))
    ELSE IF text[Len(text)] = " " THEN TrimSpace(SubSeq(text, 1, Len(text) - 1))
    ELSE text

\* A faulty handlePayload: the text is compared as it came.
handlePayload_NoTrim(config, payload) ==
    IF payload.type # "Message" THEN <<>>
    ELSE IF config.HelpCommand # <<>> /\ payload.text = config.HelpCommand
            THEN <<[input |-> "HelpInput", text |-> payload.text]>>
    ELSE IF config.AbortCommand # <<>> /\ payload.text = config.AbortCommand
            THEN <<[input |-> "AbortInput", text |-> payload.text]>>
    ELSE <<[input |-> "MessageInput", text |-> payload.text]>>

\* handlePayload: the inputs it passes to enqueueInput, in order.  HelpInput
\* and AbortInput wrap the MessageInput made of the payload.
handlePayload(config, payload) ==
    IF payload.type # "Message" THEN <<>>
    ELSE IF config.HelpCommand # <<>> /\ TrimSpace(payload.text) = config.HelpCommand
            THEN <<[input |-> "HelpInput", text |-> payload.text]>>
    ELSE IF config.AbortCommand # <<>> /\ TrimSpace(payload.text) = config.AbortCommand
            THEN <<[input |-> "AbortInput", text |-> payload.text]>>
    ELSE <<[input |-> "MessageInput", text |-> payload.text]>>

\* adapter.payloadHandler is called with a payload.
payloadHandler(config, payload) ==
    /\ payloadCall' = [config |-> config, payload |-> payload,
                       enqueued |-> handlePayload(config, payload)]
    /\ UNCHANGED exceptPayloadVars

PayloadNext == \E config \in PayloadConfigs, payload \in Payloads : payloadHandler(config, payload)

PayloadSpec == Init /\ [][PayloadNext]_vars

\* The text of the handled payload, trimmed, is the non-empty command word.
IsCommand(word) == word # <<>> /\ TrimSpace(payloadCall.payload.text) = word

\* C36: for a Message payload handlePayload enqueues exactly one input, made
\* of that message: a HelpInput when the trimmed text is the non-empty
\* HelpCommand, else an AbortInput when it is the non-empty AbortCommand,
\* else the MessageInput; for a payload of any other type it enqueues
\* nothing.
C36_HandlePayloadInputs ==
    LET c == payloadCall.config
        p == payloadCall.payload
        e == payloadCall.enqueued
    IN  /\ p.type # "Message" => e = <<>>
        /\ p.type = "Message" =>
              /\ Len(e) = 1
              /\ e[1].text = p.text
              /\ e[1].input = "HelpInput" <=> IsCommand(c.HelpCommand)
              /\ e[1].input = "AbortInput"
                    <=> (~IsCommand(c.HelpCommand) /\ IsCommand(c.AbortCommand))
              /\ e[1].input = "MessageInput"
                    <=> (~IsCommand(c.HelpCommand) /\ ~IsCommand(c.AbortCommand))

\* A message whose text is the help word after a blank was handled with the
\* same word configured for help and for abort: a HelpInput was enqueued.
C36_Witness ==
    /\ payloadCall.config = [HelpCommand |-> <<"h">>, AbortCommand |-> <<"h">>]
    /\ payloadCall.payload = [type |-> "Message", text |-> <<" ", "h">>]
    /\ payloadCall.enqueued = <<[input |-> "HelpInput", text |-> <<" ", "h">>]>>

(***************************************************************************)
(* Worker.Run called again.                                                *)
(***************************************************************************)
\* The workers that the step starts.
StartedByStep == {w \in Workers : wstate[w] = "none" /\ wstate'[w] # "none"}

\* C40: a Run called while the pool is running returns an error, starts no
\* worker and leaves isRunning and the record of the runs as they are; a
\* Run called when the goroutine of every earlier Run has seen its context
\* cancelled and reset isRunning returns nil, sets isRunning and starts
\* exactly workerNum workers, all of this Run; nothing but Run starts one.
C40_RunAgain ==
    /\ [][(IsRunning /\ runErr' # runErr) =>
             /\ runErr' = "error"
             /\ StartedByStep = {}
             /\ UNCHANGED <<isRunning, runs, watcher, wstate>>]_vars
    /\ [][IsRunning => runs' = runs /\ StartedByStep = {}]_vars
    /\ [][(~IsRunning /\ (runErr' # runErr \/ runs' # runs)) =>
             /\ \A r \in 1..Len(runs) : watcher[r] = "done" /\ cancelled[runs[r].ctx]
             /\ runErr' = "nil"
             /\ IsRunning'
             /\ Len(runs') = Len(runs) + 1
             /\ Cardinality(StartedByStep) = runs'[Len(runs')].num
             /\ \A w \in StartedByStep : w[1] = Len(runs') /\ wstate'[w] = "select"]_vars
    /\ [][StartedByStep # {} => runs' # runs]_vars

\* A Run failed because the pool was running: the second Run, made after
\* the first one's cancellation was seen, had succeeded with two workers.
C40_Witness ==
    /\ runErr = "error"
    /\ IsRunning
    /\ Len(runs) = 2
    /\ runs[2].num = 2
    /\ watcher[1] = "done"
    /\ Cardinality({w \in Workers : w[1] = 2 /\ wstate[w] # "none"}) = 2

====
